---------------------------- MODULE Spec2Model ----------------------------
(***************************************************************************)
(* A model of the Azure Container Apps launcher of the Dagster Cloud       *)
(* agent (src/app/aca_launcher.py).                                        *)
(*                                                                         *)
(* Several state machines share this module:                               *)
(*   SpecReady      the readiness poller _wait_for_new_server_ready        *)
(*   SpecApply      the create-or-update paths launch_code_server and      *)
(*                  _start_new_server_spinup against the control plane     *)
(*   SpecLifecycle  spinup, launch_run, terminate, server removal and      *)
(*                  discovery against one resource group                   *)
(*   SpecDiscovery  the three listing methods over arbitrary listings      *)
(*   SpecNaming     the derivation of the Container App name               *)
(* Each specification leaves the other machines' variables at their        *)
(* initial values.                                                         *)
(***************************************************************************)
EXTENDS Naturals, Sequences, FiniteSets, TLC

VARIABLES
    \* ---- _wait_for_new_server_ready (one call) ----
    attempt,        \* local `attempt`
    pollPc,         \* position of the coroutine
    fetchResult,    \* outcome of this attempt's container_apps.get
    app,            \* local `app`: the resource as last fetched
    probeResult,    \* outcome of this attempt's health_check_query
    getCalls,       \* number of container_apps.get calls issued by the call
    notResponding,  \* the "not yet responding to gRPC" line was logged
    \* ---- the launcher and the remote control plane ----
    config,         \* the launcher's configuration, fixed by __init__
    remoteApps,     \* the Container Apps of the resource group
    pc,             \* per caller: position in launch_code_server / _start_new_server_spinup
    req,            \* per caller: the arguments of the call
    envelope,       \* per caller: app_name and the ContainerApp built for the call
    existing,       \* per caller: existing_app of launch_code_server
    submitPath,     \* per caller: whether the control plane created or updated
    opResult,       \* per caller: how the asynchronous operation ended
    exc,            \* per caller: the exception raised to the caller
    ret,            \* per caller: the value returned to the caller
    \* ---- AcaRunLauncher: launch_run and terminate, per run ----
    runPc,          \* position in launch_run
    runEnvelope,    \* app_name and the ContainerApp built by launch_run
    runExc,         \* the exception launch_run raised
    runOp,          \* the create-or-update operation of the run worker
    termResult,     \* how the last terminate(run_id) ended
    \* ---- server removal and discovery ----
    rm,             \* the call of _remove_server_handle in progress or last ended
    disc,           \* the last call of a listing method and what it returned
    naming,         \* a (deployment, location) pair and the name derived from it
    \* ---- update_code_server and scale_code_server, per operator ----
    maint,          \* the call in progress or last ended
    \* ---- _wait_for_new_server_ready, one coroutine per resource ----
    pollers,        \* per resource: attempt and position of its coroutine
    \* ---- entrypoint.py ----
    boot            \* position, environment and files of the entrypoint

pollVars == <<attempt, pollPc, fetchResult, app, probeResult, getCalls, notResponding>>

applyVars == <<config, remoteApps, pc, req, envelope, existing, submitPath, opResult, exc, ret>>

upkeepVars == <<maint, pollers, boot>>

lifeVars == <<runPc, runEnvelope, runExc, runOp, termResult, rm, disc, naming, upkeepVars>>

vars == <<pollVars, applyVars, lifeVars>>

-----------------------------------------------------------------------------
(* Readiness poller: _wait_for_new_server_ready                             *)

\* max_attempts = 60  # 5 minutes with 5-second intervals
max_attempts == 60

\* Values the remote reports for provisioning_state.
ProvisioningStates == {"InProgress", "Succeeded", "Failed"}

\* Values of running_status; "absent" is an SDK object without the attribute.
RunningStatuses == {"Running", "Stopped", "absent"}

\* What container_apps.get can return for the polled resource.
AppSnapshots == [provisioning_state : ProvisioningStates, running_status : RunningStatuses]

\* `app` before the first successful fetch.
NoApp == [provisioning_state |-> "none", running_status |-> "none"]

\* Outcomes of client.health_check_query(): it returns, or it raises.
ProbeOutcomes == {"ok", "fail"}

IsProvisionedAndRunning_NoRunningCheck(a) == a.provisioning_state = "Succeeded"

\* if (app.provisioning_state == "Succeeded" and hasattr(app, 'running_status')
\*     and app.running_status == "Running"):
IsProvisionedAndRunning(a) ==
    /\ a.provisioning_state = "Succeeded"
    /\ a.running_status # "absent"
    /\ a.running_status = "Running"

LoopContinues_OffByOne(a) == a <= max_attempts

\* while attempt < max_attempts:
LoopContinues(a) == a < max_attempts

AfterFailedAttempt_NotCounted(a) == a

\* attempt += 1
AfterFailedAttempt(a) == a + 1

ProbeReturns_AnyOutcome(o) == o \in ProbeOutcomes

\* The `return` after health_check_query is reached only when the query did
\* not raise.
ProbeReturns(o) == o = "ok"

\* The end of an iteration: attempt += 1, await asyncio.sleep(5).
EndAttempt ==
    /\ attempt' = AfterFailedAttempt(attempt)
    /\ pollPc' = "sleeping"

\* One pass from the top of the loop body to its first suspension point:
\* container_apps.get, the provisioning/running test, and either the start of
\* the health probe or the end of the attempt.
PollFetch ==
    /\ pollPc = "top"
    /\ getCalls' = getCalls + 1
    /\ probeResult' = "none"
    /\ \/ \* get raised: logged by the outer except, the attempt ends
          /\ fetchResult' = "error"
          /\ app' = app
          /\ EndAttempt
       \/ \E a \in AppSnapshots :
            /\ fetchResult' = "ok"
            /\ app' = a
            /\ IF IsProvisionedAndRunning(a)
                 THEN /\ pollPc' = "probing"
                      /\ attempt' = attempt
                 ELSE EndAttempt
    /\ UNCHANGED notResponding

\* run_in_executor(health_check_query) completes: return on success,
\* log and fall through to the end of the attempt when it raised.
PollProbeDone ==
    /\ pollPc = "probing"
    /\ \E o \in ProbeOutcomes :
         /\ probeResult' = o
         /\ IF ProbeReturns(o)
              THEN /\ pollPc' = "returned"
                   /\ attempt' = attempt
                   /\ notResponding' = notResponding
              ELSE /\ EndAttempt
                   /\ notResponding' = TRUE
    /\ UNCHANGED <<fetchResult, app, getCalls>>

\* asyncio.sleep(5) ends and the loop condition is evaluated: the body runs
\* again, or the loop is left and TimeoutError is raised.
PollWake ==
    /\ pollPc = "sleeping"
    /\ pollPc' = IF LoopContinues(attempt) THEN "top" ELSE "timedout"
    /\ UNCHANGED <<attempt, fetchResult, app, probeResult, getCalls, notResponding>>


-----------------------------------------------------------------------------
(* Strings that the code takes apart are sequences of characters.          *)

Min(a, b) == IF a < b THEN a ELSE b

\* s[:n]
Take(s, n) == SubSeq(s, 1, Min(Len(s), n))

\* str.lower() on the characters used here
LowerChar(c) ==
    CASE c = "A" -> "a"
      [] c = "B" -> "b"
      [] c = "C" -> "c"
      [] c = "P" -> "p"
      [] OTHER -> c

\* str.replace("_", "-") on one character
HyphenChar(c) == IF c = "_" THEN "-" ELSE c

\* sub in s
Contains(sub, s) ==
    \E i \in 1..(Len(s) + 1) :
        /\ i + Len(sub) - 1 <= Len(s)
        /\ SubSeq(s, i, i + Len(sub) - 1) = sub

\* '/' in s
HasSlash(s) == \E i \in 1..Len(s) : s[i] = "/"

\* s.split('/')[0], for s with a '/'
BeforeFirstSlash(s) ==
    LET i == CHOOSE k \in 1..Len(s) : s[k] = "/" /\ \A j \in 1..(k - 1) : s[j] # "/"
    IN  SubSeq(s, 1, i - 1)

\* the [:32] of the name derivation
MaxNameLen == 32

DagsterPrefix == <<"d", "a", "g", "s", "t", "e", "r", "-">>

\* app_name = f"dagster-{deployment_name}-{location_name}"[:32]
\* app_name = app_name.lower().replace("_", "-")
DeriveServerName(deployment_name, location_name) ==
    LET cut == Take(DagsterPrefix \o deployment_name \o <<"-">> \o location_name, MaxNameLen)
    IN  [i \in 1..Len(cut) |-> HyphenChar(LowerChar(cut[i]))]

-----------------------------------------------------------------------------
(* Registry credentials: _get_registry_credentials                          *)

None == "None"

AzureCr == <<"a", "z", "u", "r", "e", "c", "r", ".", "i", "o">>
Ecr == <<"e", "c", "r">>
AmazonAws == <<"a", "m", "a", "z", "o", "n", "a", "w", "s", ".", "c", "o", "m">>

\* registry_server = image.split('/')[0] if '/' in image else None
\* (None and the empty string are both false in `if not registry_server`;
\* both are the empty sequence here)
RegistryServer(image) == IF HasSlash(image) THEN BeforeFirstSlash(image) ELSE <<>>

RegistryCredentialsFor_Unauthenticated(image, identity) ==
    LET server == RegistryServer(image) IN
    IF server = <<>> \/ (Contains(AzureCr, server) /\ identity = None)
      THEN [raises |-> None, registries |-> <<>>]
    ELSE IF Contains(AzureCr, server)
      THEN [raises |-> None, registries |-> <<[server |-> server, identity |-> identity]>>]
    ELSE [raises |-> "ValueError: Unsupported container registry", registries |-> <<>>]

RegistryCredentialsFor_AnyRegistry(image, identity) ==
    LET server == RegistryServer(image) IN
    IF server # <<>> /\ Contains(AzureCr, server)
      THEN IF identity = None
             THEN [raises |-> "ValueError: CODE_SERVER_IDENTITY_ID not set", registries |-> <<>>]
             ELSE [raises |-> None,
                   registries |-> <<[server |-> server, identity |-> identity]>>]
      ELSE [raises |-> None, registries |-> <<>>]

\* The outcome of _get_registry_credentials: the registries list, or the
\* ValueError it raises.
RegistryCredentialsFor(image, identity) ==
    LET server == RegistryServer(image) IN
    IF server = <<>>
      THEN [raises |-> None, registries |-> <<>>]
    ELSE IF Contains(AzureCr, server)
      THEN IF identity = None
             THEN [raises |-> "ValueError: CODE_SERVER_IDENTITY_ID not set", registries |-> <<>>]
             ELSE [raises |-> None,
                   registries |-> <<[server |-> server, identity |-> identity]>>]
    ELSE IF Contains(Ecr, server) /\ Contains(AmazonAws, server)
      THEN [raises |-> "ValueError: AWS ECR image, push to ACR", registries |-> <<>>]
    ELSE [raises |-> "ValueError: Unsupported container registry", registries |-> <<>>]

-----------------------------------------------------------------------------
(* Building the ContainerApp envelope                                       *)

\* os.getenv("DAGSTER_CLOUD_URL", "https://dagster.cloud")
DagsterCloudUrl == "https://dagster.cloud"

\* _build_environment_variables: the three fixed variables, then custom_env
\* in its own order.
BuildEnvironmentVariables(deployment_name, location_name, custom_env) ==
    << [name |-> "DAGSTER_CLOUD_DEPLOYMENT_NAME", value |-> deployment_name],
       [name |-> "DAGSTER_CLOUD_CODE_LOCATION_NAME", value |-> location_name],
       [name |-> "DAGSTER_CLOUD_URL", value |-> DagsterCloudUrl] >> \o custom_env

MergeTags_ExtraWins(a, b) ==
    [k \in (DOMAIN a) \cup (DOMAIN b) |-> IF k \in DOMAIN a THEN a[k] ELSE b[k]]

\* {**a, **b}: the keys of b override those of a
MergeTags(a, b) ==
    [k \in (DOMAIN a) \cup (DOMAIN b) |-> IF k \in DOMAIN b THEN b[k] ELSE a[k]]

NoIngress == [external |-> FALSE, target_port |-> 0, transport |-> None]

ServerScale_Autoscaled == [min_replicas |-> 1, max_replicas |-> 3]

\* scale=Scale(min_replicas=1, max_replicas=1) of a code server
ServerScale == [min_replicas |-> 1, max_replicas |-> 1]

\* Ingress(external=True, target_port=4000, transport="tcp")
SpinupIngress == [external |-> TRUE, target_port |-> 4000, transport |-> "tcp"]

\* identity=ManagedServiceIdentity(...) if self.code_server_identity_id else None
IdentityOf(cfg) == cfg.code_server_identity_id

\* The ContainerApp of launch_code_server.
LaunchEnvelope(cfg, r, registries) ==
    [ image      |-> r.image,
      env        |-> BuildEnvironmentVariables(r.deployment_name, r.location_name, r.custom_env),
      ingress    |-> NoIngress,
      identity   |-> IdentityOf(cfg),
      registries |-> registries,
      scale      |-> ServerScale,
      tags       |-> MergeTags(cfg.required_tags,
                       [k \in {"dagster-deployment", "dagster-location",
                               "dagster-component", "managed-by"} |->
                          CASE k = "dagster-deployment" -> r.deployment_name
                            [] k = "dagster-location" -> r.location_name
                            [] k = "dagster-component" -> "code-server"
                            [] OTHER -> "dagster-cloud-agent"]) ]

\* agent_id = self._instance.instance_uuid if ... else None
AgentIdOf(cfg) == cfg.instance_uuid

\* str(desired_entry.update_timestamp)
StrOfTimestamp(t) == <<"str", t>>

\* The ContainerApp of _start_new_server_spinup.
SpinupEnvelope(cfg, r, registries) ==
    [ image      |-> r.image,
      env        |-> BuildEnvironmentVariables(r.deployment_name, r.location_name, r.custom_env),
      ingress    |-> SpinupIngress,
      identity   |-> IdentityOf(cfg),
      registries |-> registries,
      scale      |-> ServerScale,
      tags       |-> MergeTags(cfg.required_tags,
                       [k \in {"dagster-deployment", "dagster-location", "dagster-component",
                               "managed-by", "dagster-agent-id",
                               "dagster-update-timestamp"} |->
                          CASE k = "dagster-deployment" -> r.deployment_name
                            [] k = "dagster-location" -> r.location_name
                            [] k = "dagster-component" -> "code-server"
                            [] k = "managed-by" -> "dagster-cloud-agent"
                            [] k = "dagster-agent-id" ->
                                 (IF AgentIdOf(cfg) = None THEN "unknown" ELSE AgentIdOf(cfg))
                            [] OTHER -> StrOfTimestamp(r.update_timestamp)]) ]

BuildEnvelope(cfg, r, registries) ==
    IF r.op = "launch" THEN LaunchEnvelope(cfg, r, registries)
                       ELSE SpinupEnvelope(cfg, r, registries)

-----------------------------------------------------------------------------
(* The remote control plane, as the launcher's calls see it                 *)

RemoteNames(apps) == {a.name : a \in apps}

\* The resource named n, for n in RemoteNames(apps).
RemoteApp(apps, n) == CHOOSE a \in apps : a.name = n

\* begin_create_or_update accepted: a PUT on the resource name replaces the
\* resource of that name or adds it, and provisioning starts.
Upsert(apps, n, container_app) ==
    {a \in apps : a.name # n}
      \cup {[name |-> n, container_app |-> container_app, provisioning_state |-> "InProgress"]}

\* The asynchronous operation on n ends with state st.
SetProvisioningState(apps, n, st) ==
    {IF a.name = n THEN [a EXCEPT !.provisioning_state = st] ELSE a : a \in apps}

-----------------------------------------------------------------------------
(* launch_code_server and _start_new_server_spinup                          *)

\* Number of concurrent callers of the launcher.
NumCallers == 2

Callers == 1..NumCallers

NoReq == [op |-> None]
NoEnvelope == [app_name |-> <<>>]
NoRet == [kind |-> None]

AfterExistenceCheck_RejectExisting(found) == IF found THEN "raised" ELSE "submit"

AfterExistenceCheck_NotFoundRaises(found) == IF found THEN "submit" ELSE "raised"

\* try: existing_app = get(...)  except Exception: log
\* Found or not, the next statement is begin_create_or_update.
AfterExistenceCheck(found) == "submit"

SubmitMethod_CreateWhenMissing(existing_app) ==
    IF existing_app = None THEN "create" ELSE "create_or_update"

\* The request sent whatever existing_app is:
\* self.aca_client.container_apps.begin_create_or_update(...)
SubmitMethod(existing_app) == "create_or_update"

\* Where poller.result(timeout=180) leaves the caller.  The launcher tells
\* the outcomes apart only by whether result() raises: it raises when the
\* operation failed; when the operation is still running after the timeout
\* it returns the resource as last seen (azure.core.polling.LROPoller.result:
\* "the result available after the specified timeout") like it does on
\* success.
ResultRaises(outcome) == outcome = "Failed"

Raise(p, e) ==
    /\ pc' = [pc EXCEPT ![p] = "raised"]
    /\ exc' = [exc EXCEPT ![p] = e]

\* Entry of either method with request r, up to the first remote call: the
\* image check of the spinup, the name, the environment, the registry
\* credentials (which may raise) and the ContainerApp.
Call(p, r) ==
    /\ pc[p] = "idle"
    /\ req' = [req EXCEPT ![p] = r]
    /\ LET creds == RegistryCredentialsFor(r.image, config.code_server_identity_id)
           name == DeriveServerName(r.deployment_name, r.location_name)
       IN  IF r.op = "spinup" /\ r.image = <<>>
             THEN /\ Raise(p, "ValueError: No image specified")
                  /\ UNCHANGED envelope
           ELSE IF creds.raises # None
             THEN /\ Raise(p, creds.raises)
                  /\ UNCHANGED envelope
           ELSE /\ envelope' = [envelope EXCEPT ![p] =
                        [app_name |-> name,
                         container_app |-> BuildEnvelope(config, r, creds.registries)]]
                /\ pc' = [pc EXCEPT ![p] = IF r.op = "launch" THEN "check" ELSE "submit"]
                /\ UNCHANGED exc
    /\ UNCHANGED <<config, remoteApps, existing, submitPath, opResult, ret>>

\* launch_code_server: the existence check.  get returns the resource, or it
\* raises (the resource is absent, or the call failed) and the exception is
\* swallowed with existing_app left None.
ExistenceCheck(p) ==
    /\ pc[p] = "check"
    /\ \E found \in BOOLEAN :
         /\ found => envelope[p].app_name \in RemoteNames(remoteApps)
         /\ existing' = [existing EXCEPT ![p] = IF found THEN "found" ELSE None]
         /\ IF AfterExistenceCheck(found) = "submit"
              THEN /\ pc' = [pc EXCEPT ![p] = "submit"]
                   /\ UNCHANGED exc
              ELSE Raise(p, IF found THEN "AlreadyExists" ELSE "ResourceNotFoundError")
    /\ UNCHANGED <<config, remoteApps, req, envelope, submitPath, opResult, ret>>

\* begin_create_or_update: the control plane rejects the request (the call
\* raises, nothing changes) or accepts it.
Submit(p) ==
    /\ pc[p] = "submit"
    /\ LET n == envelope[p].app_name
           present == n \in RemoteNames(remoteApps)
           method == IF req[p].op = "launch" THEN SubmitMethod(existing[p])
                                            ELSE "create_or_update"
       IN  \/ /\ Raise(p, "HttpResponseError")
              /\ opResult' = [opResult EXCEPT ![p] = "rejected"]
              /\ UNCHANGED <<remoteApps, submitPath>>
           \/ \* a create-only request for a name that exists is refused
              /\ method = "create" /\ present
              /\ Raise(p, "ResourceExistsError")
              /\ UNCHANGED <<remoteApps, submitPath, opResult>>
           \/ /\ ~(method = "create" /\ present)
              /\ remoteApps' = Upsert(remoteApps, n, envelope[p].container_app)
              /\ submitPath' = [submitPath EXCEPT ![p] = IF present THEN "update" ELSE "create"]
              /\ pc' = [pc EXCEPT ![p] = "wait"]
              /\ UNCHANGED <<opResult, exc>>
    /\ UNCHANGED <<config, req, envelope, existing, ret>>

\* poller.result(timeout=180).  After it launch_code_server returns the
\* name; the spinup goes on to fetch the resource.
WaitResult(p) ==
    /\ pc[p] = "wait"
    /\ \E outcome \in {"Succeeded", "Failed", "TimedOut"} :
         /\ opResult' = [opResult EXCEPT ![p] = outcome]
         /\ remoteApps' = IF outcome = "TimedOut" THEN remoteApps
                          ELSE SetProvisioningState(remoteApps, envelope[p].app_name, outcome)
         /\ IF ResultRaises(outcome)
              THEN /\ Raise(p, "HttpResponseError")
                   /\ UNCHANGED ret
              ELSE /\ UNCHANGED exc
                   /\ IF req[p].op = "launch"
                        THEN /\ pc' = [pc EXCEPT ![p] = "returned"]
                             /\ ret' = [ret EXCEPT ![p] =
                                   [kind |-> "app_name", app_name |-> envelope[p].app_name]]
                        ELSE /\ pc' = [pc EXCEPT ![p] = "fetch"]
                             /\ UNCHANGED ret
    /\ UNCHANGED <<config, req, envelope, existing, submitPath>>

\* host = app.configuration.ingress.fqdn if (...) else app_name
HostOf(a, app_name) ==
    IF a.container_app.ingress # NoIngress THEN <<"fqdn-of">> \o app_name ELSE app_name

\* transport = (... ingress.transport) or "tcp"; TCP and internal HTTP use
\* the target port 4000, external HTTP uses 443.
PortOf(a) ==
    LET ingress == a.container_app.ingress
        transport == IF ingress.transport = None THEN "tcp" ELSE ingress.transport
    IN  IF transport = "tcp" THEN 4000
        ELSE IF ingress.external THEN 443
        ELSE 4000

\* _start_new_server_spinup after the wait: the handle, the get for the
\* FQDN (which may raise), the endpoint, the return.
FetchEndpoint(p) ==
    /\ pc[p] = "fetch"
    /\ LET n == envelope[p].app_name IN
       \/ /\ Raise(p, "HttpResponseError")
          /\ UNCHANGED ret
       \/ /\ n \in RemoteNames(remoteApps)
          /\ pc' = [pc EXCEPT ![p] = "returned"]
          /\ ret' = [ret EXCEPT ![p] =
               [kind |-> "server",
                server_handle |-> [app_name |-> n,
                                   deployment_name |-> req[p].deployment_name,
                                   location_name |-> req[p].location_name,
                                   agent_id |-> AgentIdOf(config),
                                   update_timestamp |-> req[p].update_timestamp],
                server_endpoint |-> [host |-> HostOf(RemoteApp(remoteApps, n), n),
                                     port |-> PortOf(RemoteApp(remoteApps, n))]]]
          /\ UNCHANGED exc
    /\ UNCHANGED <<config, remoteApps, req, envelope, existing, submitPath, opResult>>

-----------------------------------------------------------------------------
(* AcaRunLauncher: launch_run and terminate                                 *)

\* run_id[:8]
RunIdPrefixLen == 8

DagsterRunPrefix == <<"d", "a", "g", "s", "t", "e", "r", "-", "r", "u", "n", "-">>

\* app_name = f"dagster-run-{run_id[:8]}"
\* app_name = app_name.lower().replace("_", "-")
DeriveRunName(run_id) ==
    LET raw == DagsterRunPrefix \o Take(run_id, RunIdPrefixLen)
    IN  [i \in 1..Len(raw) |-> HyphenChar(LowerChar(raw[i]))]

\* self.required_tags = {"Department": os.getenv("AZURE_TAG_DEPARTMENT", "Engineering")}
RunRequiredTags == [k \in {"Department"} |-> "Engineering"]

RunEnvironment_CopyAll(server_env, r) ==
    << [name |-> "DAGSTER_RUN_JOB_NAME", value |-> r.job_name],
       [name |-> "DAGSTER_RUN_ID", value |-> r.run_id] >> \o server_env

\* env_vars: the two run variables, then the code server's variables
\* without DAGSTER_CLOUD_CODE_LOCATION_NAME.
RunEnvironment(server_env, r) ==
    LET Copied(e) == e.name # "DAGSTER_CLOUD_CODE_LOCATION_NAME"
    IN  << [name |-> "DAGSTER_RUN_JOB_NAME", value |-> r.job_name],
           [name |-> "DAGSTER_RUN_ID", value |-> r.run_id] >> \o SelectSeq(server_env, Copied)

\* registries: set only for an image whose registry server contains
\* azurecr.io, with whatever identity is configured (the empty sequence
\* stands for registries=None).
RunRegistries(image, identity) ==
    IF RegistryServer(image) # <<>> /\ Contains(AzureCr, RegistryServer(image))
      THEN <<[server |-> RegistryServer(image), identity |-> identity]>>
      ELSE <<>>

\* command = ExecuteRunArgs(stripped origin, run_id, instance_ref).get_command_args()
\* with the entry point rewritten to [executable_path, "-m", "dagster"]
\* when an executable path is known.
RunCommand(r) ==
    [ entry_point |-> IF r.executable_path # None
                        THEN <<r.executable_path, "-m", "dagster">>
                        ELSE <<"dagster">>,
      container_context |-> "stripped",
      run_id |-> r.run_id ]

RunImage_FirstSeen(server) == <<"x", ".">> \o AzureCr \o <<"/", "i">>

\* container_image = code_server_app.template.containers[0].image
RunImage(server) == server.container_app.image

\* The ContainerApp of launch_run, derived from the code server as fetched.
RunEnvelope(cfg, server, r) ==
    [ image      |-> RunImage(server),
      env        |-> RunEnvironment(server.container_app.env, r),
      ingress    |-> NoIngress,
      identity   |-> IdentityOf(cfg),
      registries |-> RunRegistries(RunImage(server), cfg.code_server_identity_id),
      scale      |-> [min_replicas |-> 0, max_replicas |-> 1],
      command    |-> RunCommand(r),
      tags       |-> MergeTags(RunRequiredTags,
                       [k \in {"dagster-deployment", "dagster-location", "dagster-component",
                               "dagster-run-id", "managed-by"} |->
                          CASE k = "dagster-deployment" -> r.deployment_name
                            [] k = "dagster-location" -> r.location_name
                            [] k = "dagster-component" -> "run-worker"
                            [] k = "dagster-run-id" -> r.run_id
                            [] OTHER -> "dagster-cloud-agent"]) ]

\* The runs the model launches and terminates.
RunA ==
    [ run_id |-> <<"a", "b", "c", "d", "0", "1", "2", "3", "9">>,
      job_name |-> "job",
      deployment_name |-> <<"P">>,
      location_name |-> <<"c">>,
      executable_path |-> "/venv/bin/python" ]

RunB ==
    [ run_id |-> <<"e", "_", "f">>,
      job_name |-> "job",
      deployment_name |-> <<"P">>,
      location_name |-> <<"c">>,
      executable_path |-> None ]

\* A run whose id differs from RunA's after the eighth character.
RunC == [RunA EXCEPT !.run_id = <<"a", "b", "c", "d", "0", "1", "2", "3", "f">>]

Runs == {RunA, RunB, RunC}

NoTermResult == [ended |-> None]

AfterRunSubmitRejected_Swallowed == "returned"

\* except Exception as e: logger.error(...); raise
AfterRunSubmitRejected == "raised"

AfterTerminateError_Reraised == "raised"

\* except Exception as e: logger.warning(...)
AfterTerminateError == "returned"

\* launch_run up to begin_create_or_update: the location of the run, the
\* get of the code server (any exception becomes a ValueError), the name,
\* the environment, the command and the ContainerApp.
LaunchRunFetch(r) ==
    /\ runPc[r] = "idle"
    /\ LET n == DeriveServerName(r.deployment_name, r.location_name) IN
       IF r.location_name = <<>>
         THEN /\ runPc' = [runPc EXCEPT ![r] = "raised"]
              /\ runExc' = [runExc EXCEPT ![r] = "ValueError: Could not determine code location"]
              /\ UNCHANGED runEnvelope
         ELSE \/ /\ runPc' = [runPc EXCEPT ![r] = "raised"]
                 /\ runExc' = [runExc EXCEPT ![r] = "ValueError: Could not find code server"]
                 /\ UNCHANGED runEnvelope
              \/ /\ n \in RemoteNames(remoteApps)
                 /\ runEnvelope' = [runEnvelope EXCEPT ![r] =
                        [app_name |-> DeriveRunName(r.run_id),
                         container_app |-> RunEnvelope(config, RemoteApp(remoteApps, n), r)]]
                 /\ runPc' = [runPc EXCEPT ![r] = "submit"]
                 /\ UNCHANGED runExc
    /\ UNCHANGED <<remoteApps, runOp, termResult>>

\* begin_create_or_update of the run worker.  A rejected request raises;
\* an accepted one starts the operation and launch_run returns at once
\* ("Don't wait for completion - return immediately").
LaunchRunSubmit(r) ==
    /\ runPc[r] = "submit"
    /\ \/ /\ runOp' = [runOp EXCEPT ![r] = "rejected"]
          /\ runPc' = [runPc EXCEPT ![r] = AfterRunSubmitRejected]
          /\ runExc' = [runExc EXCEPT ![r] =
                IF AfterRunSubmitRejected = "raised" THEN "HttpResponseError" ELSE None]
          /\ UNCHANGED remoteApps
       \/ /\ remoteApps' = Upsert(remoteApps, runEnvelope[r].app_name, runEnvelope[r].container_app)
          /\ runOp' = [runOp EXCEPT ![r] = "pending"]
          /\ runPc' = [runPc EXCEPT ![r] = "returned"]
          /\ UNCHANGED runExc
    /\ UNCHANGED <<runEnvelope, termResult>>

\* The control plane ends the operation that launch_run started and did not
\* wait for.
RunOperationEnds(r) ==
    /\ runOp[r] = "pending"
    /\ \E outcome \in {"Succeeded", "Failed"} :
         /\ runOp' = [runOp EXCEPT ![r] = outcome]
         /\ remoteApps' = SetProvisioningState(remoteApps, runEnvelope[r].app_name, outcome)
    /\ UNCHANGED <<runPc, runEnvelope, runExc, termResult>>

\* The resources left when the one named n is deleted.
Without(apps, n) == {a \in apps : a.name # n}

\* terminate(run_id): begin_delete under the derived name, not waited for;
\* an exception of the call is logged and swallowed.  The control plane
\* either refuses the call or carries the deletion out.
Terminate(r) ==
    LET n == DeriveRunName(r.run_id)
        absent == n \notin RemoteNames(remoteApps)
    IN  /\ \/ /\ termResult' = [run |-> r, absent |-> absent, remote |-> "raised",
                                ended |-> AfterTerminateError]
              /\ UNCHANGED remoteApps
           \/ /\ termResult' = [run |-> r, absent |-> absent, remote |-> "accepted",
                                ended |-> "returned"]
              /\ remoteApps' = Without(remoteApps, n)
        /\ UNCHANGED <<runPc, runEnvelope, runExc, runOp>>

-----------------------------------------------------------------------------
(* terminate_code_server through _remove_server_handle                      *)

NoRemoval == [pc |-> "idle", app_name |-> <<>>, absent |-> FALSE, exc |-> None]

\* except Exception as e: logger.error(...); raise   (in both methods)
AfterDeleteError(absent) == "raised"

\* _remove_server_handle(handle) -> terminate_code_server(handle.app_name):
\* begin_delete.  For a name that does not exist the control plane answers
\* with an error or takes the request as done; for one that exists it may
\* refuse the call.
RemoveBegin(n) ==
    /\ rm.pc \in {"idle", "returned", "raised"}
    /\ LET absent == n \notin RemoteNames(remoteApps) IN
       \/ /\ AfterDeleteError(absent) = "raised"
          /\ rm' = [pc |-> "raised", app_name |-> n, absent |-> absent,
                    exc |-> IF absent THEN "ResourceNotFoundError" ELSE "HttpResponseError"]
       \/ /\ AfterDeleteError(absent) = "returned"
          /\ rm' = [pc |-> "returned", app_name |-> n, absent |-> absent, exc |-> None]
       \/ rm' = [pc |-> "wait", app_name |-> n, absent |-> absent, exc |-> None]
    /\ UNCHANGED remoteApps

\* poller.result(timeout=120): the deletion is done, it failed (raised), or
\* it is still running when the wait gives up (result returns).
RemoveWait ==
    /\ rm.pc = "wait"
    /\ \E outcome \in {"Succeeded", "Failed", "TimedOut"} :
         /\ remoteApps' = IF outcome = "Succeeded" THEN Without(remoteApps, rm.app_name)
                          ELSE remoteApps
         /\ rm' = IF ResultRaises(outcome)
                    THEN [rm EXCEPT !.pc = "raised", !.exc = "HttpResponseError"]
                    ELSE [rm EXCEPT !.pc = "returned"]

-----------------------------------------------------------------------------
(* Discovery: _get_standalone_dagster_server_handles_for_location,          *)
(* _list_server_handles and list_code_servers                               *)

\* What tags.get(k) gives for a tag that is not there, where the value is
\* otherwise a name (a sequence of characters).
NoneName == <<"None">>

\* tags.get("dagster-deployment", "unknown")
Unknown == <<"u", "n", "k", "n", "o", "w", "n">>

\* app.tags of a listed resource; the empty function stands for no tags.
TagsOf(a) == a.container_app.tags

\* tags.get(k, default)
TagGet(tags, k, default) == IF k \in DOMAIN tags THEN tags[k] ELSE default

\* not (not app.tags or app.tags.get("managed-by") != "dagster-cloud-agent")
IsOwned(a) ==
    /\ DOMAIN TagsOf(a) # {}
    /\ "managed-by" \in DOMAIN TagsOf(a)
    /\ TagsOf(a)["managed-by"] = "dagster-cloud-agent"

\* The tag holds a string (the truth test of update_timestamp_str).
HasTimestampTag(tags) ==
    /\ "dagster-update-timestamp" \in DOMAIN tags
    /\ tags["dagster-update-timestamp"] # <<>>

\* float(s) raises ValueError for a string that is not a number; the strings
\* written by str(update_timestamp) are numbers.
FloatRaises(s) == s[1] # "str"

\* float(s) for a string that parses
Float(s) == s[2]

TimestampRaises(tags) ==
    HasTimestampTag(tags) /\ FloatRaises(tags["dagster-update-timestamp"])

\* float(update_timestamp_str) if update_timestamp_str else time.time()
UpdateTimestamp(tags, now) ==
    IF HasTimestampTag(tags) THEN Float(tags["dagster-update-timestamp"]) ELSE now

\* AcaServerHandle(app_name, deployment_name, location_name, agent_id,
\*                 update_timestamp)
AcaServerHandle(app_name, deployment_name, location_name, agent_id, update_timestamp) ==
    [ app_name |-> app_name,
      deployment_name |-> deployment_name,
      location_name |-> location_name,
      agent_id |-> agent_id,
      update_timestamp |-> update_timestamp ]

\* The owned resources with both tags equal to the arguments.
MatchingLocation(apps, deployment_name, location_name) ==
    { a \in apps : /\ IsOwned(a)
                   /\ TagGet(TagsOf(a), "dagster-deployment", NoneName) = deployment_name
                   /\ TagGet(TagsOf(a), "dagster-location", NoneName) = location_name }

AfterListingError_Raises == "raised"

\* except Exception as e: logger.error(...); return []
AfterListingError == "empty"

\* The value of _get_standalone_dagster_server_handles_for_location over the
\* listing apps at time now: a handle per matching resource, unless a
\* timestamp tag of one of them makes float() raise inside the try.
HandlesForLocation(apps, deployment_name, location_name, now) ==
    LET matching == MatchingLocation(apps, deployment_name, location_name) IN
    IF \E a \in matching : TimestampRaises(TagsOf(a))
      THEN {}
      ELSE { AcaServerHandle(a.name, deployment_name, location_name,
                             TagGet(TagsOf(a), "dagster-agent-id", None),
                             UpdateTimestamp(TagsOf(a), now)) : a \in matching }

\* The value of _list_server_handles over the listing apps at time now.
ListServerHandles(apps, now) ==
    LET owned == {a \in apps : IsOwned(a)} IN
    IF \E a \in owned : TimestampRaises(TagsOf(a))
      THEN {}
      ELSE { AcaServerHandle(a.name,
                             TagGet(TagsOf(a), "dagster-deployment", Unknown),
                             TagGet(TagsOf(a), "dagster-location", Unknown),
                             TagGet(TagsOf(a), "dagster-agent-id", None),
                             UpdateTimestamp(TagsOf(a), now)) : a \in owned }

\* The value of list_code_servers(deployment_name) over the listing apps;
\* the empty name stands for no filter.
ListCodeServers(apps, deployment_name) ==
    { [ name |-> a.name,
        deployment |-> TagGet(TagsOf(a), "dagster-deployment", NoneName),
        location |-> TagGet(TagsOf(a), "dagster-location", NoneName),
        provisioning_state |-> a.provisioning_state ] :
      a \in { b \in apps :
                /\ IsOwned(b)
                /\ ~ ( /\ deployment_name # <<>>
                       /\ TagGet(TagsOf(b), "dagster-deployment", NoneName) # deployment_name ) } }

\* Readings of time.time()
Clock == {99}

NoDisc ==
    [ kind |-> None, deployment_name |-> <<>>, location_name |-> <<>>,
      listing_failed |-> FALSE, now |-> 0, raised |-> FALSE, result |-> {} ]

\* One call of a discovery method: list_by_resource_group fails or gives
\* the resources of the resource group, and the method computes its
\* result.  Nothing is written to the control plane.
Discover(kind, deployment_name, location_name) ==
    /\ \E failed \in BOOLEAN, now \in Clock :
         disc' = [ kind |-> kind,
                   deployment_name |-> deployment_name,
                   location_name |-> location_name,
                   listing_failed |-> failed,
                   now |-> now,
                   raised |-> failed /\ AfterListingError = "raised",
                   result |->
                     IF failed THEN {}
                     ELSE CASE kind = "for_location" ->
                                 HandlesForLocation(remoteApps, deployment_name, location_name, now)
                            [] kind = "all_handles" -> ListServerHandles(remoteApps, now)
                            [] OTHER -> ListCodeServers(remoteApps, deployment_name) ]
    /\ UNCHANGED remoteApps

-----------------------------------------------------------------------------
(* update_code_server and scale_code_server                                 *)

\* The callers of the two methods.
Operators == {"op1", "op2"}

NoMaint ==
    [ pc |-> "idle", call |-> [op |-> None], original |-> [image |-> <<>>],
      app |-> [image |-> <<>>], outcome |-> None, exc |-> None ]

\* existing_app.template.containers[0].image = image
\* if environment_variables: existing_app.template.containers[0].env = env_vars
\* (the empty sequence stands for None and for the empty dict)
UpdatedApp(existing_app, image, environment_variables) ==
    [existing_app EXCEPT
        !.image = image,
        !.env = IF environment_variables # <<>> THEN environment_variables ELSE @]

ScaledApp_Rebuilt(a, min_replicas, max_replicas) ==
    [a EXCEPT !.scale = [min_replicas |-> min_replicas, max_replicas |-> max_replicas],
              !.env = <<>>]

\* app.template.scale.min_replicas = min_replicas
\* app.template.scale.max_replicas = max_replicas
ScaledApp(a, min_replicas, max_replicas) ==
    [a EXCEPT !.scale = [min_replicas |-> min_replicas, max_replicas |-> max_replicas]]

\* The object that the call submits, made from the resource as fetched.
Modified(call, fetched) ==
    IF call.op = "update"
      THEN UpdatedApp(fetched, call.image, call.environment_variables)
      ELSE ScaledApp(fetched, call.min_replicas, call.max_replicas)

\* Entry of either method up to its submission: container_apps.get raises
\* (the resource is absent or the call failed), or it returns the resource
\* and the method changes its fields on the fetched object.
MaintFetch(m, call) ==
    /\ maint[m].pc = "idle"
    /\ \/ maint' = [maint EXCEPT ![m] =
              [NoMaint EXCEPT !.pc = "raised", !.call = call,
                 !.exc = IF call.app_name \in RemoteNames(remoteApps)
                           THEN "HttpResponseError" ELSE "ResourceNotFoundError"]]
       \/ /\ call.app_name \in RemoteNames(remoteApps)
          /\ LET fetched == RemoteApp(remoteApps, call.app_name).container_app IN
             maint' = [maint EXCEPT ![m] =
                [NoMaint EXCEPT !.pc = "submit", !.call = call, !.original = fetched,
                                !.app = Modified(call, fetched)]]
    /\ UNCHANGED remoteApps

\* begin_create_or_update with the changed object: rejected (the call
\* raises) or accepted.
MaintSubmit(m) ==
    /\ maint[m].pc = "submit"
    /\ \/ /\ maint' = [maint EXCEPT ![m].pc = "raised", ![m].exc = "HttpResponseError",
                                    ![m].outcome = "rejected"]
          /\ UNCHANGED remoteApps
       \/ /\ remoteApps' = Upsert(remoteApps, maint[m].call.app_name, maint[m].app)
          /\ maint' = [maint EXCEPT ![m].pc = "wait"]

\* poller.result(timeout=...): raises when the operation failed, returns
\* otherwise; any exception is logged and raised again.
MaintWait(m) ==
    /\ maint[m].pc = "wait"
    /\ \E outcome \in {"Succeeded", "Failed", "TimedOut"} :
         /\ remoteApps' = IF outcome = "TimedOut" THEN remoteApps
                          ELSE SetProvisioningState(remoteApps, maint[m].call.app_name, outcome)
         /\ maint' = IF ResultRaises(outcome)
                       THEN [maint EXCEPT ![m].pc = "raised", ![m].exc = "HttpResponseError",
                                          ![m].outcome = outcome]
                       ELSE [maint EXCEPT ![m].pc = "returned", ![m].outcome = outcome]

-----------------------------------------------------------------------------
(* Several coroutines of _wait_for_new_server_ready on one event loop, each *)
(* reduced to its attempt counter and its position                          *)

\* server_handle.app_name of the coroutines.
PolledNames ==
    { DeriveServerName(<<"P">>, <<"c">>), DeriveServerName(<<"P">>, <<"a", "_", "B">>) }

NotPolling == [pollPc |-> "top", attempt |-> 0, probeInFlight |-> FALSE]

HoldsLoop_BlockingSleep(pos) == pos = "sleeping"

\* Whether a coroutine at this position keeps the event loop from running
\* other coroutines.  The coroutine is suspended only in
\* `await ...run_in_executor(...)` and in `await asyncio.sleep(5)`, and
\* both hand the loop back.
HoldsLoop(pos) == FALSE

\* The event loop can resume the coroutine of n.
CanResume(n) == \A o \in PolledNames \ {n} : ~HoldsLoop(pollers[o].pollPc)

\* From the top of the loop body to the next suspension point, for the
\* resource n only: get raises, or returns a snapshot of n.
PollerFetch(n) ==
    /\ pollers[n].pollPc = "top"
    /\ CanResume(n)
    /\ \/ pollers' = [pollers EXCEPT ![n].attempt = AfterFailedAttempt(@),
                                     ![n].pollPc = "sleeping"]
       \/ \E a \in AppSnapshots :
            pollers' = IF IsProvisionedAndRunning(a)
                         THEN [pollers EXCEPT ![n].pollPc = "probing",
                                              ![n].probeInFlight = TRUE]
                         ELSE [pollers EXCEPT ![n].attempt = AfterFailedAttempt(@),
                                              ![n].pollPc = "sleeping"]

\* health_check_query ends in the executor and the coroutine resumes.
PollerProbeDone(n) ==
    /\ pollers[n].pollPc = "probing"
    /\ CanResume(n)
    /\ \E o \in ProbeOutcomes :
         pollers' = IF ProbeReturns(o)
                      THEN [pollers EXCEPT ![n].pollPc = "returned",
                                           ![n].probeInFlight = FALSE]
                      ELSE [pollers EXCEPT ![n].attempt = AfterFailedAttempt(@),
                                           ![n].pollPc = "sleeping",
                                           ![n].probeInFlight = FALSE]

\* The sleep ends.
PollerWake(n) ==
    /\ pollers[n].pollPc = "sleeping"
    /\ CanResume(n)
    /\ pollers' = [pollers EXCEPT ![n].pollPc =
                      IF LoopContinues(pollers[n].attempt) THEN "top" ELSE "timedout"]

\* The caller cancels the task: CancelledError is raised in the coroutine
\* at the await where it is suspended; it is not an Exception, so neither
\* except clause catches it.  The query that run_in_executor handed to a
\* thread is not stopped by this.
PollerCancel(n) ==
    /\ pollers[n].pollPc \in {"probing", "sleeping"}
    /\ CanResume(n)
    /\ pollers' = [pollers EXCEPT ![n].pollPc = "cancelled"]

\* The query of a cancelled coroutine ends in its thread; nobody reads the
\* result.
OrphanProbeEnds(n) ==
    /\ pollers[n].pollPc = "cancelled"
    /\ pollers[n].probeInFlight
    /\ pollers' = [pollers EXCEPT ![n].probeInFlight = FALSE]

-----------------------------------------------------------------------------
(* entrypoint.py: main, _fetch_key_vault_secrets and                        *)
(* _expand_env_vars_in_yaml                                                 *)

\* The index of the first c in s, 0 when there is none.
IndexOf(s, c) ==
    IF \E i \in 1..Len(s) : s[i] = c
      THEN CHOOSE i \in 1..Len(s) : s[i] = c /\ \A j \in 1..(i - 1) : s[j] # c
      ELSE 0

\* str.strip(), for the blank
Strip(s) ==
    LET inked == {i \in 1..Len(s) : s[i] # " "} IN
    IF inked = {} THEN <<>>
    ELSE SubSeq(s, CHOOSE i \in inked : \A j \in inked : i <= j,
                   CHOOSE i \in inked : \A j \in inked : j <= i)

RECURSIVE Split(_, _)
\* s.split(c)
Split(s, c) ==
    LET i == IndexOf(s, c) IN
    IF i = 0 THEN <<s>>
    ELSE <<SubSeq(s, 1, i - 1)>> \o Split(SubSeq(s, i + 1, Len(s)), c)

\* secret_names = [s for s in secret_names_raw.split(",") if s]
SecretNames(secret_names_raw) ==
    LET NotEmpty(s) == s # <<>>
    IN  SelectSeq(Split(secret_names_raw, ","), NotEmpty)

\* secret_name, env_name of an entry that is stripped and not empty:
\* entry.split(':', 1) with both parts stripped, or the entry for both.
ParseEntry(entry) ==
    LET i == IndexOf(entry, ":") IN
    IF i > 0
      THEN [secret_name |-> Strip(SubSeq(entry, 1, i - 1)),
            env_name |-> Strip(SubSeq(entry, i + 1, Len(entry)))]
      ELSE [secret_name |-> entry, env_name |-> entry]

\* os.getenv(name, default)
GetEnv(environ, name, default) ==
    IF name \in DOMAIN environ THEN environ[name] ELSE default

\* os.environ[name] = value
SetEnv(environ, name, value) ==
    [k \in DOMAIN environ \cup {name} |-> IF k = name THEN value ELSE environ[k]]

\* secret.value of the secret of that name, when the vault returns it
SecretValue(secret_name) == <<"#">> \o secret_name

\* The leftmost match of \$\{([^}]+)\} in s, from its "$" to its "}";
\* from is 0 when nothing matches.
FirstPlaceholder(s) ==
    LET starts == {i \in 1..(Len(s) - 3) :
                     /\ s[i] = "$" /\ s[i + 1] = "{" /\ s[i + 2] # "}"
                     /\ \E j \in (i + 3)..Len(s) : s[j] = "}"}
    IN  IF starts = {} THEN [from |-> 0, to |-> 0]
        ELSE LET i == CHOOSE a \in starts : \A b \in starts : a <= b
                 j == CHOOSE a \in (i + 3)..Len(s) :
                         s[a] = "}" /\ \A b \in (i + 3)..(a - 1) : s[b] # "}"
             IN  [from |-> i, to |-> j]

\* replace_env_var: os.getenv(var_name.strip(), default.strip()) with the
\* default '' when the expression has no ':'.
ReplaceEnvVar(var_expr, environ) ==
    LET i == IndexOf(var_expr, ":")
        var_name == IF i > 0 THEN SubSeq(var_expr, 1, i - 1) ELSE var_expr
        default == IF i > 0 THEN SubSeq(var_expr, i + 1, Len(var_expr)) ELSE <<>>
    IN  GetEnv(environ, Strip(var_name), Strip(default))

RECURSIVE ExpandEnvVars(_, _)
\* re.sub(r'\$\{([^}]+)\}', replace_env_var, content)
ExpandEnvVars(content, environ) ==
    LET m == FirstPlaceholder(content) IN
    IF m.from = 0 THEN content
    ELSE SubSeq(content, 1, m.from - 1)
           \o ReplaceEnvVar(SubSeq(content, m.from + 2, m.to - 1), environ)
           \o ExpandEnvVars(SubSeq(content, m.to + 1, Len(content)), environ)

\* The entrypoint before it runs.
NotBooted ==
    [ pc |-> "off", vault_uri |-> None, secret_names_raw |-> <<>>, environ |-> <<>>,
      original |-> <<>>, yaml |-> <<>>, secret_names |-> <<>>, entry |-> 0,
      attempts |-> <<>>, trace |-> <<>>, exc |-> None ]

AfterSecretError_Propagates(next) == "failed"

\* except Exception as e: logging.error(...)   (inside the for loop)
AfterSecretError(next) == next

AfterExpandError_Logged == "agent"

\* except Exception as e: logging.error(...); raise
AfterExpandError == "failed"

\* main up to the call of _fetch_key_vault_secrets or, without a vault or
\* without names, up to the expansion.
BootMain ==
    /\ boot.pc = "main"
    /\ LET secret_names == SecretNames(boot.secret_names_raw) IN
       boot' = [boot EXCEPT
                  !.secret_names = secret_names,
                  !.pc = IF boot.vault_uri # None /\ secret_names # <<>>
                           THEN "vault" ELSE "expand"]

\* _fetch_key_vault_secrets before its loop: the import of the SDK fails
\* (logged, the function returns), the credential or the client cannot be
\* made (the exception leaves main), or the client is ready.
BootOpenVault ==
    /\ boot.pc = "vault"
    /\ \/ boot' = [boot EXCEPT !.pc = "expand"]
       \/ boot' = [boot EXCEPT !.pc = "failed", !.exc = "ClientError"]
       \/ boot' = [boot EXCEPT !.pc = "fetch", !.entry = 1]

\* One iteration of the loop over secret_names: a blank entry is skipped;
\* for another the secret is fetched and set in the environment, or the
\* fetch or the assignment raises.
BootFetchSecret ==
    /\ boot.pc = "fetch"
    /\ LET entry == Strip(boot.secret_names[boot.entry])
           next == IF boot.entry = Len(boot.secret_names) THEN "expand" ELSE "fetch"
           e == ParseEntry(entry)
       IN  IF entry = <<>>
             THEN boot' = [boot EXCEPT !.entry = @ + 1, !.pc = next]
             ELSE \E ok \in BOOLEAN :
                    /\ ok => e.env_name # <<>>
                    /\ boot' = [boot EXCEPT
                         !.entry = @ + 1,
                         !.attempts = Append(@, [secret_name |-> e.secret_name,
                                                 env_name |-> e.env_name, ok |-> ok]),
                         !.trace = Append(@, "fetch"),
                         !.environ = IF ok THEN SetEnv(@, e.env_name, SecretValue(e.secret_name))
                                     ELSE @,
                         !.pc = IF ok THEN next ELSE AfterSecretError(next),
                         !.exc = IF ~ok /\ AfterSecretError(next) = "failed"
                                   THEN "SecretError" ELSE @]

\* _expand_env_vars_in_yaml: the file is read, expanded and written back,
\* or reading or writing raises; a failed write may leave the file empty.
BootExpand ==
    /\ boot.pc = "expand"
    /\ \/ boot' = [boot EXCEPT !.yaml = ExpandEnvVars(@, boot.environ),
                               !.trace = Append(@, "expanded"),
                               !.pc = "agent"]
       \/ \E left \in {boot.yaml, <<>>} :
            boot' = [boot EXCEPT !.yaml = left,
                                 !.trace = Append(@, "expand-failed"),
                                 !.exc = "OSError",
                                 !.pc = AfterExpandError]

\* The rest of main: DAGSTER_HOME and PYTHONPATH, then the import of the
\* agent, which may raise, and run_local_agent_in_environment.
BootStartAgent ==
    /\ boot.pc = "agent"
    /\ LET pythonpath == GetEnv(boot.environ, <<"PYTHONPATH">>, <<>>)
           environ == SetEnv(SetEnv(boot.environ, <<"DAGSTER_HOME">>, <<"/app">>),
                             <<"PYTHONPATH">>,
                             IF pythonpath # <<>> THEN <<"/app", ":">> \o pythonpath
                                                  ELSE <<"/app">>)
       IN  \/ boot' = [boot EXCEPT !.environ = environ, !.pc = "failed",
                                   !.exc = "ImportError"]
           \/ boot' = [boot EXCEPT !.environ = environ, !.pc = "running",
                                   !.trace = Append(@, "agent")]

-----------------------------------------------------------------------------
(* The name derivation at its two sites in AcaUserCodeLauncher              *)

NoNaming ==
    [ deployment_name |-> <<>>, location_name |-> <<>>,
      launch_name |-> <<>>, spinup_name |-> <<>> ]

\* launch_code_server derives the name of its Container App.
NameAtLaunch ==
    /\ naming.launch_name = <<>>
    /\ naming' = [naming EXCEPT !.launch_name =
                    DeriveServerName(naming.deployment_name, naming.location_name)]

\* _start_new_server_spinup derives the name of its Container App.
NameAtSpinup ==
    /\ naming.spinup_name = <<>>
    /\ naming' = [naming EXCEPT !.spinup_name =
                    DeriveServerName(naming.deployment_name, naming.location_name)]

\* The state of the part above when nothing has been called.
LifeIdle ==
    /\ runPc = [r \in Runs |-> "idle"]
    /\ runEnvelope = [r \in Runs |-> NoEnvelope]
    /\ runExc = [r \in Runs |-> None]
    /\ runOp = [r \in Runs |-> None]
    /\ termResult = NoTermResult
    /\ rm = NoRemoval
    /\ disc = NoDisc
    /\ naming = NoNaming
    /\ maint = [m \in Operators |-> NoMaint]
    /\ pollers = [n \in PolledNames |-> NotPolling]
    /\ boot = NotBooted

-----------------------------------------------------------------------------
(* The apply specification: two callers, each issuing one call              *)

DeploymentP == <<"P">>
LocationAB == <<"a", "_", "B">>
LocationC == <<"c">>

\* "x.azurecr.io/i"
ImageAcr == <<"x", "."  >> \o AzureCr \o <<"/", "i">>
\* "1.ecr.amazonaws.com/i"
ImageEcr == <<"1", ".">> \o Ecr \o <<".">> \o AmazonAws \o <<"/", "i">>

CustomEnvs == {<<[name |-> "API_KEY", value |-> "k"]>>}

\* A caller environment that names two of the fixed variables again.
CollidingEnv ==
    << [name |-> "DAGSTER_CLOUD_URL", value |-> "https://other.example"],
       [name |-> "DAGSTER_CLOUD_CODE_LOCATION_NAME", value |-> <<"z">>] >>

ApplyRequests ==
    [ op : {"launch", "spinup"},
      deployment_name : {DeploymentP},
      location_name : {LocationAB, LocationC},
      image : {ImageAcr, ImageEcr},
      custom_env : CustomEnvs,
      update_timestamp : {17} ]

ApplyConfigs ==
    [ code_server_identity_id : {"identity-1", None},
      instance_uuid : {"agent-1"},
      required_tags : {[k \in {"Department"} |-> "Engineering"]} ]

\* The state after the launcher's construction, with no call in progress.
ApplyStart ==
    /\ attempt = 0
    /\ pollPc = "top"
    /\ fetchResult = "none"
    /\ app = NoApp
    /\ probeResult = "none"
    /\ getCalls = 0
    /\ notResponding = FALSE
    /\ config \in ApplyConfigs
    /\ remoteApps = {}
    /\ pc = [p \in Callers |-> "idle"]
    /\ req = [p \in Callers |-> NoReq]
    /\ envelope = [p \in Callers |-> NoEnvelope]
    /\ existing = [p \in Callers |-> "unset"]
    /\ submitPath = [p \in Callers |-> None]
    /\ opResult = [p \in Callers |-> None]
    /\ exc = [p \in Callers |-> None]
    /\ ret = [p \in Callers |-> NoRet]
    /\ LifeIdle

ApplyCall == \E p \in Callers, r \in ApplyRequests : Call(p, r) /\ UNCHANGED <<pollVars, lifeVars>>

ApplyExistenceCheck == \E p \in Callers : ExistenceCheck(p) /\ UNCHANGED <<pollVars, lifeVars>>

ApplySubmit == \E p \in Callers : Submit(p) /\ UNCHANGED <<pollVars, lifeVars>>

ApplyWaitResult == \E p \in Callers : WaitResult(p) /\ UNCHANGED <<pollVars, lifeVars>>

ApplyFetchEndpoint == \E p \in Callers : FetchEndpoint(p) /\ UNCHANGED <<pollVars, lifeVars>>

ApplyNext ==
    \/ ApplyCall
    \/ ApplyExistenceCheck
    \/ ApplySubmit
    \/ ApplyWaitResult
    \/ ApplyFetchEndpoint

SpecApply == ApplyStart /\ [][ApplyNext]_vars

-----------------------------------------------------------------------------
(* The readiness specification: one call of the poller                      *)

\* The launcher's configuration while only the poller runs.
DefaultConfig ==
    [ code_server_identity_id |-> "identity-1",
      instance_uuid |-> "agent-1",
      required_tags |-> [k \in {"Department"} |-> "Engineering"] ]

ReadyInit ==
    /\ attempt = 0
    /\ pollPc = "top"
    /\ fetchResult = "none"
    /\ app = NoApp
    /\ probeResult = "none"
    /\ getCalls = 0
    /\ notResponding = FALSE
    /\ config = DefaultConfig
    /\ remoteApps = {}
    /\ pc = [p \in Callers |-> "idle"]
    /\ req = [p \in Callers |-> NoReq]
    /\ envelope = [p \in Callers |-> NoEnvelope]
    /\ existing = [p \in Callers |-> "unset"]
    /\ submitPath = [p \in Callers |-> None]
    /\ opResult = [p \in Callers |-> None]
    /\ exc = [p \in Callers |-> None]
    /\ ret = [p \in Callers |-> NoRet]
    /\ LifeIdle

ReadyFetch == PollFetch /\ UNCHANGED <<applyVars, lifeVars>>

ReadyProbeDone == PollProbeDone /\ UNCHANGED <<applyVars, lifeVars>>

ReadyWake == PollWake /\ UNCHANGED <<applyVars, lifeVars>>

ReadyNext == ReadyFetch \/ ReadyProbeDone \/ ReadyWake

SpecReady == ReadyInit /\ [][ReadyNext]_vars

\* Every remote call and every sleep of the coroutine returns.
SpecReadyLive == SpecReady /\ WF_vars(ReadyNext)

Resolved == pollPc \in {"returned", "timedout", "failed"}

-----------------------------------------------------------------------------
(* The lifecycle specification: a code server is applied, a run is launched *)
(* from it and terminated, servers are removed, the location is discovered  *)

callVars == <<pc, req, envelope, existing, submitPath, opResult, exc, ret>>

runVars == <<runPc, runEnvelope, runExc, runOp, termResult>>

\* The caller whose server the runs belong to.
Agent == 1

LifeRequests ==
    [ op : {"launch", "spinup"},
      deployment_name : {DeploymentP},
      location_name : {LocationC},
      image : {ImageAcr},
      custom_env : CustomEnvs \cup {CollidingEnv},
      update_timestamp : {17} ]

\* Configurations whose extra tags do and do not claim the launcher's keys.
ConflictingTags ==
    [k \in {"Department", "managed-by", "dagster-component"} |->
       CASE k = "Department" -> "Engineering"
         [] k = "managed-by" -> "terraform"
         [] OTHER -> "sidecar"]

LifeConfigs ==
    [ code_server_identity_id : {"identity-1"},
      instance_uuid : {"agent-1"},
      required_tags : {[k \in {"Department"} |-> "Engineering"], ConflictingTags} ]

\* The runs launched while the server is applied.
LifeRuns == {RunA}

LifeInit ==
    /\ attempt = 0
    /\ pollPc = "top"
    /\ fetchResult = "none"
    /\ app = NoApp
    /\ probeResult = "none"
    /\ getCalls = 0
    /\ notResponding = FALSE
    /\ config \in LifeConfigs
    /\ remoteApps = {}
    /\ pc = [p \in Callers |-> "idle"]
    /\ req = [p \in Callers |-> NoReq]
    /\ envelope = [p \in Callers |-> NoEnvelope]
    /\ existing = [p \in Callers |-> "unset"]
    /\ submitPath = [p \in Callers |-> None]
    /\ opResult = [p \in Callers |-> None]
    /\ exc = [p \in Callers |-> None]
    /\ ret = [p \in Callers |-> NoRet]
    /\ LifeIdle

LifeCall == \E r \in LifeRequests : Call(Agent, r) /\ UNCHANGED <<pollVars, lifeVars>>

LifeExistenceCheck == ExistenceCheck(Agent) /\ UNCHANGED <<pollVars, lifeVars>>

LifeSubmit == Submit(Agent) /\ UNCHANGED <<pollVars, lifeVars>>

LifeWaitResult == WaitResult(Agent) /\ UNCHANGED <<pollVars, lifeVars>>

LifeFetchEndpoint == FetchEndpoint(Agent) /\ UNCHANGED <<pollVars, lifeVars>>

LifeLaunchRunFetch ==
    \E r \in LifeRuns : LaunchRunFetch(r) /\ UNCHANGED <<pollVars, config, callVars, rm, disc, naming, upkeepVars>>

LifeLaunchRunSubmit ==
    \E r \in LifeRuns : LaunchRunSubmit(r) /\ UNCHANGED <<pollVars, config, callVars, rm, disc, naming, upkeepVars>>

LifeRunOperationEnds ==
    \E r \in LifeRuns : RunOperationEnds(r) /\ UNCHANGED <<pollVars, config, callVars, rm, disc, naming, upkeepVars>>

LifeTerminate ==
    \E r \in LifeRuns : Terminate(r) /\ UNCHANGED <<pollVars, config, callVars, rm, disc, naming, upkeepVars>>

LifeRemoveBegin ==
    /\ RemoveBegin(DeriveServerName(DeploymentP, LocationC))
    /\ UNCHANGED <<pollVars, config, callVars, runVars, disc, naming, upkeepVars>>

LifeRemoveWait == RemoveWait /\ UNCHANGED <<pollVars, config, callVars, runVars, disc, naming, upkeepVars>>

LifeDiscover ==
    /\ Discover("for_location", DeploymentP, LocationC)
    /\ UNCHANGED <<pollVars, config, callVars, runVars, rm, naming, upkeepVars>>

LifeNext ==
    \/ LifeCall
    \/ LifeExistenceCheck
    \/ LifeSubmit
    \/ LifeWaitResult
    \/ LifeFetchEndpoint
    \/ LifeLaunchRunFetch
    \/ LifeLaunchRunSubmit
    \/ LifeRunOperationEnds
    \/ LifeTerminate
    \/ LifeRemoveBegin
    \/ LifeRemoveWait
    \/ LifeDiscover

SpecLifecycle == LifeInit /\ [][LifeNext]_vars

-----------------------------------------------------------------------------
(* The discovery specification: the three listing methods over a resource   *)
(* group that holds any mix of resources                                    *)

SpinupRequestC ==
    [ op |-> "spinup", deployment_name |-> DeploymentP, location_name |-> LocationC,
      image |-> ImageAcr, custom_env |-> CHOOSE e \in CustomEnvs : TRUE,
      update_timestamp |-> 17 ]

LaunchRequestAB ==
    [ op |-> "launch", deployment_name |-> DeploymentP, location_name |-> LocationAB,
      image |-> ImageAcr, custom_env |-> CHOOSE e \in CustomEnvs : TRUE,
      update_timestamp |-> 17 ]

Resource(n, container_app) ==
    [name |-> n, container_app |-> container_app, provisioning_state |-> "Succeeded"]

\* A server as _start_new_server_spinup makes it.
SpunUpServer ==
    Resource(DeriveServerName(DeploymentP, LocationC),
             SpinupEnvelope(DefaultConfig, SpinupRequestC,
                            RegistryCredentialsFor(ImageAcr, "identity-1").registries))

\* A server as launch_code_server makes it: no agent-id and no timestamp tag.
LaunchedServer ==
    Resource(DeriveServerName(DeploymentP, LocationAB),
             LaunchEnvelope(DefaultConfig, LaunchRequestAB,
                            RegistryCredentialsFor(ImageAcr, "identity-1").registries))

\* A run worker as launch_run makes it from SpunUpServer.
RunWorker == Resource(DeriveRunName(RunA.run_id), RunEnvelope(DefaultConfig, SpunUpServer, RunA))

\* The resource a with its tags replaced.
Retagged(a, n, tags) == [a EXCEPT !.name = n, !.container_app.tags = tags]

\* An owned server of location c whose timestamp tag is not a number.
MalformedServer ==
    Retagged(SpunUpServer, <<"o", "l", "d">>,
             [TagsOf(SpunUpServer) EXCEPT !["dagster-update-timestamp"] = <<"n", "a", "n", "?">>])

\* A resource of the same location that something else manages.
ForeignApp ==
    Retagged(SpunUpServer, <<"t", "f">>,
             [TagsOf(SpunUpServer) EXCEPT !["managed-by"] = "terraform"])

\* A resource without tags.
UntaggedApp == Retagged(SpunUpServer, <<"x">>, <<>>)

\* An owned resource of another deployment.
OtherDeployment == <<"q">>

OtherDeploymentServer ==
    Retagged(LaunchedServer, <<"d", "a", "g", "s", "t", "e", "r", "-", "q", "-", "c">>,
             [TagsOf(LaunchedServer) EXCEPT !["dagster-deployment"] = OtherDeployment,
                                            !["dagster-location"] = LocationC])

DiscoveryPool ==
    { SpunUpServer, LaunchedServer, RunWorker, MalformedServer, ForeignApp, UntaggedApp,
      OtherDeploymentServer }

DiscoveryInit ==
    /\ attempt = 0
    /\ pollPc = "top"
    /\ fetchResult = "none"
    /\ app = NoApp
    /\ probeResult = "none"
    /\ getCalls = 0
    /\ notResponding = FALSE
    /\ config = DefaultConfig
    /\ remoteApps \in SUBSET DiscoveryPool
    /\ pc = [p \in Callers |-> "idle"]
    /\ req = [p \in Callers |-> NoReq]
    /\ envelope = [p \in Callers |-> NoEnvelope]
    /\ existing = [p \in Callers |-> "unset"]
    /\ submitPath = [p \in Callers |-> None]
    /\ opResult = [p \in Callers |-> None]
    /\ exc = [p \in Callers |-> None]
    /\ ret = [p \in Callers |-> NoRet]
    /\ LifeIdle

DiscoveryOthers == <<pollVars, config, callVars, runVars, rm, naming, upkeepVars>>

DiscoverForLocation ==
    \E d \in {DeploymentP, OtherDeployment}, l \in {LocationC, LocationAB} :
        Discover("for_location", d, l) /\ UNCHANGED DiscoveryOthers

DiscoverAllHandles == Discover("all_handles", <<>>, <<>>) /\ UNCHANGED DiscoveryOthers

DiscoverCodeServers ==
    \E d \in {<<>>, DeploymentP, OtherDeployment} :
        Discover("code_servers", d, <<>>) /\ UNCHANGED DiscoveryOthers

DiscoveryNext == DiscoverForLocation \/ DiscoverAllHandles \/ DiscoverCodeServers

SpecDiscovery == DiscoveryInit /\ [][DiscoveryNext]_vars

-----------------------------------------------------------------------------
(* The naming specification: the name derivation over many inputs           *)

LongDeployment ==
    <<"A", "n", "a", "l", "y", "t", "i", "c", "s", "_", "P", "r", "o", "d", "u", "c", "t", "i", "o", "n">>

NamingDeployments ==
    { DeploymentP, <<"p", "r", "o", "d">>, <<"B", "_", "2">>, <<"m", "y", ".", "o", "r", "g">>,
      LongDeployment }

NamingLocations ==
    { LocationC, LocationAB, <<"e", "t", "l", ".", "p", "y">>, <<"d", "a", "t", "a", " ", "1">>,
      <<"w", "a", "r", "e", "h", "o", "u", "s", "e", "_", "L", "o", "a", "d", "s">> }

NamingInit ==
    /\ attempt = 0
    /\ pollPc = "top"
    /\ fetchResult = "none"
    /\ app = NoApp
    /\ probeResult = "none"
    /\ getCalls = 0
    /\ notResponding = FALSE
    /\ config \in ApplyConfigs
    /\ remoteApps \in {{}, {SpunUpServer}}
    /\ pc = [p \in Callers |-> "idle"]
    /\ req = [p \in Callers |-> NoReq]
    /\ envelope = [p \in Callers |-> NoEnvelope]
    /\ existing = [p \in Callers |-> "unset"]
    /\ submitPath = [p \in Callers |-> None]
    /\ opResult = [p \in Callers |-> None]
    /\ exc = [p \in Callers |-> None]
    /\ ret = [p \in Callers |-> NoRet]
    /\ runPc = [r \in Runs |-> "idle"]
    /\ runEnvelope = [r \in Runs |-> NoEnvelope]
    /\ runExc = [r \in Runs |-> None]
    /\ runOp = [r \in Runs |-> None]
    /\ termResult = NoTermResult
    /\ rm = NoRemoval
    /\ disc = NoDisc
    /\ maint = [m \in Operators |-> NoMaint]
    /\ pollers = [n \in PolledNames |-> NotPolling]
    /\ boot = NotBooted
    /\ \E d \in NamingDeployments, l \in NamingLocations :
         naming = [NoNaming EXCEPT !.deployment_name = d, !.location_name = l]

NamingOthers == <<pollVars, applyVars, runVars, rm, disc, upkeepVars>>

NamingLaunch == NameAtLaunch /\ UNCHANGED NamingOthers

NamingSpinup == NameAtSpinup /\ UNCHANGED NamingOthers

NamingNext == NamingLaunch \/ NamingSpinup

SpecNaming == NamingInit /\ [][NamingNext]_vars

-----------------------------------------------------------------------------
(* The envelope specification: one caller builds and applies a code server  *)
(* over many images and caller environments                                 *)

\* "docker.io/i"
ImageDockerHub == <<"d", "o", "c", "k", "e", "r", ".", "i", "o", "/", "i">>

\* "i", an image reference without '/'
ImagePlain == <<"i">>

\* "ghcr.io/i"
ImageGhcr == <<"g", "h", "c", "r", ".", "i", "o", "/", "i">>

EnvelopeRequests ==
    [ op : {"launch", "spinup"},
      deployment_name : {DeploymentP},
      location_name : {LocationC},
      image : {ImageAcr, ImageEcr, ImageDockerHub, ImagePlain, ImageGhcr},
      custom_env : CustomEnvs \cup {CollidingEnv},
      update_timestamp : {17} ]

EnvelopeInit ==
    /\ attempt = 0
    /\ pollPc = "top"
    /\ fetchResult = "none"
    /\ app = NoApp
    /\ probeResult = "none"
    /\ getCalls = 0
    /\ notResponding = FALSE
    /\ config \in ApplyConfigs
    /\ remoteApps = {}
    /\ pc = [p \in Callers |-> "idle"]
    /\ req = [p \in Callers |-> NoReq]
    /\ envelope = [p \in Callers |-> NoEnvelope]
    /\ existing = [p \in Callers |-> "unset"]
    /\ submitPath = [p \in Callers |-> None]
    /\ opResult = [p \in Callers |-> None]
    /\ exc = [p \in Callers |-> None]
    /\ ret = [p \in Callers |-> NoRet]
    /\ LifeIdle

EnvelopeCall == \E r \in EnvelopeRequests : Call(Agent, r) /\ UNCHANGED <<pollVars, lifeVars>>

EnvelopeExistenceCheck == ExistenceCheck(Agent) /\ UNCHANGED <<pollVars, lifeVars>>

EnvelopeSubmit == Submit(Agent) /\ UNCHANGED <<pollVars, lifeVars>>

EnvelopeWaitResult == WaitResult(Agent) /\ UNCHANGED <<pollVars, lifeVars>>

EnvelopeFetchEndpoint == FetchEndpoint(Agent) /\ UNCHANGED <<pollVars, lifeVars>>

EnvelopeNext ==
    \/ EnvelopeCall
    \/ EnvelopeExistenceCheck
    \/ EnvelopeSubmit
    \/ EnvelopeWaitResult
    \/ EnvelopeFetchEndpoint

SpecEnvelope == EnvelopeInit /\ [][EnvelopeNext]_vars

-----------------------------------------------------------------------------
(* The upkeep specification: two operators update and scale code servers    *)
(* that spinup and launch have made                                         *)

\* "x.azurecr.io/j"
ImageNext == <<"x", "."  >> \o AzureCr \o <<"/", "j">>

UpkeepEnv == <<[name |-> "API_KEY", value |-> "k2"]>>

UpkeepCalls ==
    [ op : {"update"},
      app_name : {SpunUpServer.name},
      image : {ImageNext},
      environment_variables : {<<>>, UpkeepEnv},
      min_replicas : {1},
      max_replicas : {1} ]
    \cup
    [ op : {"scale"},
      app_name : {SpunUpServer.name, LaunchedServer.name},
      image : {<<>>},
      environment_variables : {<<>>},
      min_replicas : {1, 2},
      max_replicas : {3} ]

UpkeepInit ==
    /\ attempt = 0
    /\ pollPc = "top"
    /\ fetchResult = "none"
    /\ app = NoApp
    /\ probeResult = "none"
    /\ getCalls = 0
    /\ notResponding = FALSE
    /\ config = DefaultConfig
    /\ remoteApps \in {{SpunUpServer}, {SpunUpServer, LaunchedServer}}
    /\ pc = [p \in Callers |-> "idle"]
    /\ req = [p \in Callers |-> NoReq]
    /\ envelope = [p \in Callers |-> NoEnvelope]
    /\ existing = [p \in Callers |-> "unset"]
    /\ submitPath = [p \in Callers |-> None]
    /\ opResult = [p \in Callers |-> None]
    /\ exc = [p \in Callers |-> None]
    /\ ret = [p \in Callers |-> NoRet]
    /\ LifeIdle

UpkeepOthers == <<pollVars, config, callVars, runVars, rm, disc, naming, pollers, boot>>

UpkeepFetch ==
    \E m \in Operators, call \in UpkeepCalls : MaintFetch(m, call) /\ UNCHANGED UpkeepOthers

UpkeepSubmit == \E m \in Operators : MaintSubmit(m) /\ UNCHANGED UpkeepOthers

UpkeepWait == \E m \in Operators : MaintWait(m) /\ UNCHANGED UpkeepOthers

UpkeepNext == UpkeepFetch \/ UpkeepSubmit \/ UpkeepWait

SpecUpkeep == UpkeepInit /\ [][UpkeepNext]_vars

-----------------------------------------------------------------------------
(* The pollers specification: the coroutines of two resources run, and are  *)
(* cancelled, on one event loop                                             *)

PollersInit ==
    /\ attempt = 0
    /\ pollPc = "top"
    /\ fetchResult = "none"
    /\ app = NoApp
    /\ probeResult = "none"
    /\ getCalls = 0
    /\ notResponding = FALSE
    /\ config = DefaultConfig
    /\ remoteApps = {}
    /\ pc = [p \in Callers |-> "idle"]
    /\ req = [p \in Callers |-> NoReq]
    /\ envelope = [p \in Callers |-> NoEnvelope]
    /\ existing = [p \in Callers |-> "unset"]
    /\ submitPath = [p \in Callers |-> None]
    /\ opResult = [p \in Callers |-> None]
    /\ exc = [p \in Callers |-> None]
    /\ ret = [p \in Callers |-> NoRet]
    /\ LifeIdle

PollersOthers == <<pollVars, applyVars, runVars, rm, disc, naming, maint, boot>>

PollersFetch == \E n \in PolledNames : PollerFetch(n) /\ UNCHANGED PollersOthers

PollersProbeDone == \E n \in PolledNames : PollerProbeDone(n) /\ UNCHANGED PollersOthers

PollersWake == \E n \in PolledNames : PollerWake(n) /\ UNCHANGED PollersOthers

PollersCancel == \E n \in PolledNames : PollerCancel(n) /\ UNCHANGED PollersOthers

PollersOrphanProbeEnds == \E n \in PolledNames : OrphanProbeEnds(n) /\ UNCHANGED PollersOthers

PollersNext ==
    \/ PollersFetch
    \/ PollersProbeDone
    \/ PollersWake
    \/ PollersCancel
    \/ PollersOrphanProbeEnds

SpecPollers == PollersInit /\ [][PollersNext]_vars

-----------------------------------------------------------------------------
(* Properties of the readiness poller                                       *)

\* This attempt's fetch succeeded, the resource is provisioned and running,
\* and the health probe returned.
HealthyAttempt ==
    /\ fetchResult = "ok"
    /\ app.provisioning_state = "Succeeded"
    /\ app.running_status = "Running"
    /\ probeResult = "ok"

C3_FailedShortCircuits ==
    (fetchResult = "ok" /\ app.provisioning_state = "Failed") => pollPc = "failed"

C6_Terminates ==
    /\ <>Resolved
    /\ [](getCalls <= max_attempts)
    /\ [][(pollPc = "top" /\ fetchResult' = "error") => attempt' = attempt + 1]_vars

\* The budget ran out on an attempt whose fetch raised.
C6_Witness == pollPc = "timedout" /\ fetchResult = "error" /\ getCalls = max_attempts

-----------------------------------------------------------------------------
(* Properties of apply                                                      *)

AppsNamed(n) == {a \in remoteApps : a.name = n}

Finished(p) == pc[p] \in {"returned", "raised"}

\* The requests accepted for the name of p's call all carried p's
\* ContainerApp.
OnlyIdenticalApplies(p) ==
    \A r \in Callers :
        (submitPath[r] # None /\ envelope[r].app_name = envelope[p].app_name)
            => envelope[r] = envelope[p]

\* C7: when a call has returned and another call with the same name and the
\* same ContainerApp finishes (no different ContainerApp having been applied
\* to that name), there is exactly one resource of that name, it carries
\* that ContainerApp, and the only error the other call can end with is one
\* the control plane reported (never one raised because the resource
\* already exists).
C7_ApplyIdempotent ==
    \A p \in Callers : \A q \in Callers \ {p} :
        ( /\ pc[q] = "returned" /\ Finished(p)
          /\ envelope[p] = envelope[q]
          /\ OnlyIdenticalApplies(p) ) =>
            /\ Cardinality(AppsNamed(envelope[p].app_name)) = 1
            /\ RemoteApp(remoteApps, envelope[p].app_name).container_app
                  = envelope[p].container_app
            /\ pc[p] = "raised" => exc[p] = "HttpResponseError"

\* The second of two identical launches found the resource and updated it.
C7_Witness ==
    \E p \in Callers : \E q \in Callers \ {p} :
        /\ pc[q] = "returned" /\ pc[p] = "returned"
        /\ envelope[p] = envelope[q]
        /\ existing[p] = "found" /\ submitPath[p] = "update"
        /\ submitPath[q] = "create"

\* C8: the existence check never ends the call: whatever get answered, the
\* create-or-update request is submitted next, and when it is accepted for a
\* resource that was not found, the resource exists with the submitted
\* ContainerApp.
C8_NotFoundDrivesCreate ==
    /\ [][\A p \in Callers :
            (pc[p] = "check" /\ pc'[p] # "check") =>
                (pc'[p] = "submit" /\ exc'[p] = None)]_vars
    /\ [][\A p \in Callers :
            (pc[p] = "submit" /\ existing[p] = None /\ pc'[p] = "wait") =>
                /\ envelope[p].app_name \in RemoteNames(remoteApps')
                /\ RemoteApp(remoteApps', envelope[p].app_name).container_app
                      = envelope[p].container_app]_vars
    /\ [](\A p \in Callers : exc[p] # "ResourceNotFoundError")

\* A launch that did not find the resource created it and returned.
C8_Witness ==
    \E p \in Callers :
        /\ existing[p] = None /\ submitPath[p] = "create" /\ pc[p] = "returned"
        /\ envelope[p].app_name \in RemoteNames(remoteApps)

\* C9: a launch whose existence check found nothing, and whose resource was
\* created by another call before its own request, has its request taken as
\* an update unless the control plane rejects it; it then ends with the
\* name returned or with an error of the asynchronous operation, and one
\* resource of that name exists.
C9_RaceTakesUpdatePath ==
    /\ [][\A p \in Callers :
            ( /\ pc[p] = "submit" /\ pc'[p] # "submit"
              /\ existing[p] = None
              /\ envelope[p].app_name \in RemoteNames(remoteApps) ) =>
                \/ /\ pc'[p] = "wait"
                   /\ submitPath'[p] = "update"
                   /\ Cardinality({a \in remoteApps' : a.name = envelope[p].app_name}) = 1
                \/ /\ pc'[p] = "raised"
                   /\ opResult'[p] = "rejected"]_vars
    /\ [](\A p \in Callers :
            (existing[p] = None /\ submitPath[p] = "update" /\ Finished(p)) =>
                /\ Cardinality(AppsNamed(envelope[p].app_name)) = 1
                /\ pc[p] = "raised" => opResult[p] = "Failed")

\* The race happened and the racing launch returned.
C9_Witness ==
    \E p \in Callers : \E q \in Callers \ {p} :
        /\ existing[p] = None /\ submitPath[p] = "update" /\ pc[p] = "returned"
        /\ submitPath[q] = "create"
        /\ envelope[q].app_name = envelope[p].app_name

\* C10: an operation that outlives the bounded wait ends the call with a
\* Timeout error, a failed operation ends it with a RemoteRejected error,
\* and neither returns a name or a handle.
C10_TimeoutAndFailureSurface ==
    \A p \in Callers :
        /\ opResult[p] = "TimedOut" =>
              (pc[p] = "raised" /\ exc[p] = "TimeoutError" /\ ret[p] = NoRet)
        /\ opResult[p] = "Failed" =>
              (pc[p] = "raised" /\ exc[p] = "HttpResponseError" /\ ret[p] = NoRet)

-----------------------------------------------------------------------------
(* Properties of launch_run, terminate and server removal                   *)

C12_RemoveIdempotent ==
    [][(rm' # rm /\ rm'.absent /\ rm'.pc \in {"returned", "raised"}) =>
          (rm'.pc = "returned" /\ remoteApps' = remoteApps)]_vars

\* C13: terminate for a run whose worker does not exist completes without
\* raising and leaves every remote resource unchanged.
C13_TerminateToleratesGone ==
    [][(termResult' # termResult /\ termResult'.absent) =>
          (termResult'.ended = "returned" /\ remoteApps' = remoteApps)]_vars

\* A run was launched, its worker is gone again, and a terminate whose
\* delete call the control plane refused has returned.
C13_Witness ==
    /\ termResult.ended = "returned"
    /\ termResult.absent
    /\ termResult.remote = "raised"
    /\ runPc[termResult.run] = "returned"

-----------------------------------------------------------------------------
(* Properties of discovery                                                  *)

\* The listing of the last discovery call was delivered.
Listed == disc.kind # None /\ ~disc.listing_failed

Owned == {a \in remoteApps : IsOwned(a)}

\* The resource names in the result of the last discovery call.
ResultNames ==
    IF disc.kind = "code_servers" THEN {h.name : h \in disc.result}
                                  ELSE {h.app_name : h \in disc.result}

\* The owned resources that the last call's filter selects.
Selected ==
    CASE disc.kind = "for_location" ->
           {a \in Owned :
              /\ TagGet(TagsOf(a), "dagster-deployment", NoneName) = disc.deployment_name
              /\ TagGet(TagsOf(a), "dagster-location", NoneName) = disc.location_name}
      [] disc.kind = "code_servers" /\ disc.deployment_name # <<>> ->
           {a \in Owned :
              TagGet(TagsOf(a), "dagster-deployment", NoneName) = disc.deployment_name}
      [] OTHER -> Owned

\* C14: over any listing of owned, foreign-tagged and untagged resources,
\* each discovery method returns entries for owned resources only, and
\* exactly for those owned resources whose deployment (and location) tags
\* equal the filter.
C14_DiscoveryReturnsOwned ==
    Listed => ResultNames = {a.name : a \in Selected}

\* C15: when an owned resource carries an update-timestamp tag that does
\* not parse, the handle-returning discovery methods still return a handle
\* for every selected owned resource, the malformed one with the current
\* time as its timestamp.
C15_MalformedTolerated ==
    ( /\ Listed
      /\ disc.kind \in {"for_location", "all_handles"}
      /\ \E a \in Owned : TimestampRaises(TagsOf(a)) ) =>
        \A a \in Selected :
            \E h \in disc.result :
                /\ h.app_name = a.name
                /\ TimestampRaises(TagsOf(a)) => h.update_timestamp = disc.now

\* C16: an owned resource with neither an update-timestamp tag nor an
\* agent-id tag has a handle in the result of the handle-returning
\* discovery methods, with the current time as its timestamp and no agent
\* id.
C16_MissingTagsDefaulted ==
    (Listed /\ disc.kind \in {"for_location", "all_handles"}) =>
        \A a \in Selected :
            ( /\ "dagster-update-timestamp" \notin DOMAIN TagsOf(a)
              /\ "dagster-agent-id" \notin DOMAIN TagsOf(a) ) =>
                \E h \in disc.result :
                    /\ h.app_name = a.name
                    /\ h.update_timestamp = disc.now
                    /\ h.agent_id = None

\* C17: a discovery call whose listing fails returns an empty result, does
\* not raise, and changes no remote resource.
C17_DiscoveryTotal ==
    [][(disc' # disc /\ disc'.listing_failed) =>
          (disc'.result = {} /\ ~disc'.raised /\ remoteApps' = remoteApps)]_vars

\* The listing of a resource group that holds owned resources failed, for
\* a discovery of handles, and the call returned the empty result.
C17_Witness ==
    /\ disc.listing_failed
    /\ disc.kind \in {"for_location", "all_handles"}
    /\ Owned # {}
    /\ disc.result = {}
    /\ ~disc.raised

\* C18: every handle that a discovery for a location returns names a
\* resource whose component kind is code-server; a run worker of the same
\* deployment and location is not among them.
C18_OnlyCodeServers ==
    [][(disc' # disc /\ disc'.kind = "for_location") =>
          \A h \in disc'.result :
              \E a \in remoteApps :
                  /\ a.name = h.app_name
                  /\ TagGet(TagsOf(a), "dagster-component", None) = "code-server"]_vars

-----------------------------------------------------------------------------
(* Properties of the name derivation                                        *)

\* The characters of a lowercase alphanumeric-or-hyphen name.
NameAlphabet ==
    { "a", "b", "c", "d", "e", "f", "g", "h", "i", "j", "k", "l", "m", "n", "o", "p", "q",
      "r", "s", "t", "u", "v", "w", "x", "y", "z",
      "0", "1", "2", "3", "4", "5", "6", "7", "8", "9", "-" }

WellFormedName(n) ==
    /\ Len(n) <= MaxNameLen
    /\ \A i \in 1..Len(n) : n[i] \in NameAlphabet

\* C19: the derived name depends on the deployment and the location only,
\* has at most 32 characters, and consists of lowercase alphanumerics and
\* hyphens.
C19_NameWellFormed ==
    /\ (naming.launch_name # <<>> /\ naming.spinup_name # <<>>) =>
          naming.launch_name = naming.spinup_name
    /\ naming.launch_name # <<>> => WellFormedName(naming.launch_name)
    /\ naming.spinup_name # <<>> => WellFormedName(naming.spinup_name)

-----------------------------------------------------------------------------
(* Properties of the tags                                                   *)

HasMandatoryTags(container_app, kind) ==
    /\ TagGet(container_app.tags, "managed-by", None) = "dagster-cloud-agent"
    /\ TagGet(container_app.tags, "dagster-component", None) = kind

\* C20: every ContainerApp built for submission, and every resource made
\* from one, carries managed-by = dagster-cloud-agent and the component
\* kind of its builder (code-server or run-worker), whatever the configured
\* extra tags are.
C20_MandatoryTagsWin ==
    /\ \A p \in Callers :
          envelope[p] # NoEnvelope => HasMandatoryTags(envelope[p].container_app, "code-server")
    /\ \A r \in Runs :
          runEnvelope[r] # NoEnvelope => HasMandatoryTags(runEnvelope[r].container_app, "run-worker")
    /\ \A a \in remoteApps :
          \/ HasMandatoryTags(a.container_app, "code-server")
          \/ HasMandatoryTags(a.container_app, "run-worker")

\* With extra tags that claim both keys, a server and a run worker have
\* been created.
C20_Witness ==
    /\ config.required_tags = ConflictingTags
    /\ \E p \in Callers : pc[p] = "returned" /\ envelope[p].app_name \in RemoteNames(remoteApps)
    /\ \E r \in Runs : runPc[r] = "returned" /\ runEnvelope[r].app_name \in RemoteNames(remoteApps)

-----------------------------------------------------------------------------
(* Properties of the registry credentials                                   *)

DockerIo == <<"d", "o", "c", "k", "e", "r", ".", "i", "o">>

\* What _get_registry_credentials raises.
ResolverErrors ==
    { "ValueError: CODE_SERVER_IDENTITY_ID not set",
      "ValueError: AWS ECR image, push to ACR",
      "ValueError: Unsupported container registry" }

\* The call of p ended in an error of the registry resolution.
ResolverRaised(p) == pc[p] = "raised" /\ exc[p] \in ResolverErrors

OnAzureCr(image) == HasSlash(image) /\ Contains(AzureCr, RegistryServer(image))

OnEcr(image) ==
    /\ HasSlash(image)
    /\ Contains(Ecr, RegistryServer(image))
    /\ Contains(AmazonAws, RegistryServer(image))

\* C21: an image on azurecr.io resolves to the managed identity, an image
\* with host docker.io and an image reference without '/' resolve to no
\* credentials without an error, and an image on ECR is refused with the
\* migration guidance.
C21_RegistryResolution ==
    \A p \in Callers :
        pc[p] # "idle" =>
            LET image == req[p].image IN
            /\ (OnAzureCr(image) /\ config.code_server_identity_id # None) =>
                  /\ ~ResolverRaised(p)
                  /\ envelope[p].container_app.registries =
                        <<[server |-> RegistryServer(image),
                           identity |-> config.code_server_identity_id]>>
            /\ (HasSlash(image) /\ RegistryServer(image) = DockerIo) =>
                  /\ ~ResolverRaised(p)
                  /\ envelope[p].container_app.registries = <<>>
            /\ OnEcr(image) =>
                  (pc[p] = "raised" /\ exc[p] = "ValueError: AWS ECR image, push to ACR")
            /\ ~HasSlash(image) =>
                  /\ ~ResolverRaised(p)
                  /\ envelope[p].container_app.registries = <<>>

\* C22: a call for an image on azurecr.io while no identity is configured
\* raises the configuration error at once, builds and submits nothing, and
\* leaves the remote resources unchanged.
C22_MissingIdentityFailsClosed ==
    /\ [][\A p \in Callers :
            ( /\ pc[p] = "idle" /\ pc'[p] # "idle"
              /\ OnAzureCr(req'[p].image)
              /\ config.code_server_identity_id = None ) =>
                /\ pc'[p] = "raised"
                /\ exc'[p] = "ValueError: CODE_SERVER_IDENTITY_ID not set"
                /\ remoteApps' = remoteApps]_vars
    /\ [](\A p \in Callers :
            ( /\ pc[p] # "idle"
              /\ OnAzureCr(req[p].image)
              /\ config.code_server_identity_id = None ) =>
                /\ pc[p] = "raised"
                /\ envelope[p] = NoEnvelope
                /\ submitPath[p] = None
                /\ opResult[p] = None)

\* Without an identity, a launch and a spinup for azurecr.io images have
\* both raised.
C22_Witness ==
    /\ config.code_server_identity_id = None
    /\ \E p \in Callers : \E q \in Callers \ {p} :
          /\ req[p].op = "launch" /\ OnAzureCr(req[p].image) /\ pc[p] = "raised"
          /\ req[q].op = "spinup" /\ OnAzureCr(req[q].image) /\ pc[q] = "raised"

\* The image names a registry other than azurecr.io.
Unsupported(image) == HasSlash(image) /\ ~OnAzureCr(image)

\* C23: a call for an image of an unsupported registry raises before
\* anything is built or submitted and leaves the remote resources
\* unchanged.
C23_UnsupportedRegistryFatal ==
    /\ [][\A p \in Callers :
            (pc[p] = "idle" /\ pc'[p] # "idle" /\ Unsupported(req'[p].image)) =>
                /\ pc'[p] = "raised"
                /\ exc'[p] \in { "ValueError: AWS ECR image, push to ACR",
                                 "ValueError: Unsupported container registry" }
                /\ remoteApps' = remoteApps]_vars
    /\ [](\A p \in Callers :
            (pc[p] # "idle" /\ Unsupported(req[p].image)) =>
                /\ pc[p] = "raised"
                /\ envelope[p] = NoEnvelope
                /\ submitPath[p] = None
                /\ opResult[p] = None)

\* A spinup for an unsupported image has raised, a spinup for another
\* location with an azurecr.io image has returned its server, and that
\* server is the only resource.
C23_Witness ==
    \E p \in Callers : \E q \in Callers \ {p} :
        /\ req[p].op = "spinup" /\ Unsupported(req[p].image) /\ pc[p] = "raised"
        /\ req[q].op = "spinup" /\ OnAzureCr(req[q].image) /\ pc[q] = "returned"
        /\ req[q].location_name # req[p].location_name
        /\ RemoteNames(remoteApps) = {envelope[q].app_name}

-----------------------------------------------------------------------------
(* Properties of update_code_server and scale_code_server                   *)

\* a and b agree in every field but the scaling bounds.
SameButScale(a, b) ==
    /\ a.image = b.image
    /\ a.env = b.env
    /\ a.ingress = b.ingress
    /\ a.identity = b.identity
    /\ a.registries = b.registries
    /\ a.tags = b.tags

\* The resource of the call of m is what m fetched, with the bounds that m
\* asked for.
ScaledOnly(m, apps) ==
    LET after == RemoteApp(apps, maint[m].call.app_name).container_app IN
    /\ SameButScale(after, maint[m].original)
    /\ after.scale = [min_replicas |-> maint[m].call.min_replicas,
                      max_replicas |-> maint[m].call.max_replicas]

\* C24: what scale_code_server submits is the resource it fetched with
\* only the scaling bounds changed, and when it has succeeded with no
\* other call on the resource, the resource has the image, environment,
\* ingress, identity, registries and tags that were fetched.
C24_ScaleChangesOnlyScale ==
    /\ [][\A m \in Operators :
            ( /\ maint[m].call.op = "scale"
              /\ maint[m].pc = "submit" /\ maint'[m].pc = "wait" ) =>
                ScaledOnly(m, remoteApps')]_vars
    /\ [](\A m \in Operators :
            ( /\ maint[m].call.op = "scale"
              /\ maint[m].pc = "returned" /\ maint[m].outcome = "Succeeded"
              /\ \A o \in Operators \ {m} : maint[o].pc = "idle" ) =>
                ScaledOnly(m, remoteApps))

\* A scale call that changed the bounds of a server has succeeded.
C24_Witness ==
    \E m \in Operators :
        /\ maint[m].call.op = "scale"
        /\ maint[m].pc = "returned" /\ maint[m].outcome = "Succeeded"
        /\ maint[m].original.scale # maint[m].app.scale
        /\ maint[m].original.env # <<>>

-----------------------------------------------------------------------------
(* Properties of the environment and of the scaling bounds                   *)

\* The value the container sees for a name that is in env: that of the
\* last entry with the name.
EffectiveValue(env, name) ==
    LET last == CHOOSE i \in 1..Len(env) :
                    /\ env[i].name = name
                    /\ \A j \in (i + 1)..Len(env) : env[j].name # name
    IN  env[last].value

\* C25: in every environment built for a code server, the value seen for
\* each of the three fixed names is the launcher's value, also when the
\* caller's variables use the same names.
C25_MandatoryEnvWins ==
    \A p \in Callers :
        envelope[p] # NoEnvelope =>
            LET env == envelope[p].container_app.env IN
            /\ EffectiveValue(env, "DAGSTER_CLOUD_DEPLOYMENT_NAME") = req[p].deployment_name
            /\ EffectiveValue(env, "DAGSTER_CLOUD_CODE_LOCATION_NAME") = req[p].location_name
            /\ EffectiveValue(env, "DAGSTER_CLOUD_URL") = DagsterCloudUrl

\* C26: every ContainerApp built by launch_code_server or
\* _start_new_server_spinup has the scaling bounds (1, 1); every one built
\* by launch_run has the bounds (0, 1) and no ingress.
C26_ScalingBoundsFixed ==
    /\ \A p \in Callers :
          envelope[p] # NoEnvelope =>
              envelope[p].container_app.scale = [min_replicas |-> 1, max_replicas |-> 1]
    /\ \A r \in Runs :
          runEnvelope[r] # NoEnvelope =>
              /\ runEnvelope[r].container_app.scale = [min_replicas |-> 0, max_replicas |-> 1]
              /\ runEnvelope[r].container_app.ingress = NoIngress

\* A code server and a run worker have both been submitted.
C26_Witness ==
    /\ \E p \in Callers : pc[p] = "returned"
    /\ \E r \in Runs : runPc[r] = "returned" /\ runOp[r] = "Succeeded"

HasEntry(env, name) == \E i \in 1..Len(env) : env[i].name = name

\* C27: the environment that launch_run derives has no entry named
\* DAGSTER_CLOUD_CODE_LOCATION_NAME, whatever the code server's
\* environment holds, and has the run id and the job name of the run.
C27_RunEnvironmentDerived ==
    \A r \in Runs :
        runEnvelope[r] # NoEnvelope =>
            LET env == runEnvelope[r].container_app.env IN
            /\ ~HasEntry(env, "DAGSTER_CLOUD_CODE_LOCATION_NAME")
            /\ \E i \in 1..Len(env) :
                  env[i] = [name |-> "DAGSTER_RUN_ID", value |-> r.run_id]
            /\ \E i \in 1..Len(env) :
                  env[i] = [name |-> "DAGSTER_RUN_JOB_NAME", value |-> r.job_name]

\* A run environment has been derived from a code server whose
\* environment names the code location twice.
C27_Witness ==
    \E r \in Runs : \E p \in Callers :
        /\ runEnvelope[r] # NoEnvelope
        /\ req[p].op # None
        /\ req[p].custom_env = CollidingEnv
        /\ pc[p] = "returned"
        /\ Cardinality({i \in 1..Len(envelope[p].container_app.env) :
               envelope[p].container_app.env[i].name = "DAGSTER_CLOUD_CODE_LOCATION_NAME"}) = 2

-----------------------------------------------------------------------------
(* Properties of concurrent and cancelled pollers                           *)

\* C28: a coroutine that has been cancelled stays cancelled, so it fetches
\* and probes no more and never returns as ready, and from its
\* cancellation on none of its remote operations is still in progress.
C28_CancelLeavesNothing ==
    [][\A n \in PolledNames :
          /\ pollers[n].pollPc = "cancelled" =>
                (pollers'[n].pollPc = "cancelled" /\ pollers'[n].attempt = pollers[n].attempt)
          /\ pollers'[n].pollPc = "cancelled" => ~pollers'[n].probeInFlight]_vars

\* A step of the coroutine of n.
PollerStep(n) == PollerFetch(n) \/ PollerProbeDone(n) \/ PollerWake(n)

Polling(n) == pollers[n].pollPc \in {"top", "probing", "sleeping"}

\* C29: a step of one coroutine changes nothing of another; a coroutine
\* that has not ended can always take its next step, whatever the others
\* are doing; and a coroutine ends in a timeout exactly after its own
\* max_attempts attempts.
C29_PollersIndependent ==
    /\ [][\A n \in PolledNames :
            pollers'[n] # pollers[n] =>
                \A o \in PolledNames \ {n} : pollers'[o] = pollers[o]]_vars
    /\ [](\A n \in PolledNames :
            /\ Polling(n) => ENABLED PollerStep(n)
            /\ pollers[n].attempt <= max_attempts)
    /\ [](\A n \in PolledNames :
            pollers[n].pollPc = "timedout" => pollers[n].attempt = max_attempts)

\* One coroutine has returned at its first attempt and the other has timed
\* out.
C29_Witness ==
    \E n \in PolledNames : \E o \in PolledNames \ {n} :
        /\ pollers[n].pollPc = "returned"
        /\ pollers[n].attempt = 0
        /\ pollers[o].pollPc = "timedout"

\* The three names that _build_environment_variables always sets.
MandatoryNames ==
    {"DAGSTER_CLOUD_DEPLOYMENT_NAME", "DAGSTER_CLOUD_CODE_LOCATION_NAME", "DAGSTER_CLOUD_URL"}

\* C30: the environment of every code server in the resource group, after
\* any calls of launch, spinup, update and scale on it, has an entry for
\* each of the three mandatory names.
C30_MandatoryEnvKept ==
    \A a \in remoteApps :
        TagGet(TagsOf(a), "dagster-component", None) = "code-server" =>
            \A name \in MandatoryNames : HasEntry(a.container_app.env, name)

-----------------------------------------------------------------------------
(* Properties of the submitted environment lists, of discovery after        *)
(* changes, and of the run launcher                                         *)

UniqueNames(env) ==
    \A i, j \in 1..Len(env) : env[i].name = env[j].name => i = j

\* C31: no environment list of a ContainerApp built for a code server or
\* for a run worker holds two entries with the same name.
C31_EnvNamesUnique ==
    /\ \A p \in Callers :
          envelope[p] # NoEnvelope => UniqueNames(envelope[p].container_app.env)
    /\ \A r \in Runs :
          runEnvelope[r] # NoEnvelope => UniqueNames(runEnvelope[r].container_app.env)

-----------------------------------------------------------------------------
(* The fleet specification: spinups for several (deployment, location)      *)
(* pairs, removal, changes made by others, and discovery                    *)

LocationCD == <<"c", "-", "d">>
DeploymentPC == <<"P", "-", "c">>
LocationD == <<"d">>

\* Spinups for two distinct (deployment, location) pairs.
FleetRequests ==
    { [ op |-> "spinup", deployment_name |-> pair[1], location_name |-> pair[2],
        image |-> ImageAcr, custom_env |-> CHOOSE e \in CustomEnvs : TRUE,
        update_timestamp |-> 17 ] :
      pair \in { <<DeploymentP, LocationCD>>, <<DeploymentPC, LocationD>> } }

\* An agent whose instance has a uuid, and one whose instance has none.
FleetConfigs ==
    [ code_server_identity_id : {"identity-1"},
      instance_uuid : {"agent-1", None},
      required_tags : {[k \in {"Department"} |-> "Engineering"]} ]

FleetInit ==
    /\ attempt = 0
    /\ pollPc = "top"
    /\ fetchResult = "none"
    /\ app = NoApp
    /\ probeResult = "none"
    /\ getCalls = 0
    /\ notResponding = FALSE
    /\ config \in FleetConfigs
    /\ remoteApps = {}
    /\ pc = [p \in Callers |-> "idle"]
    /\ req = [p \in Callers |-> NoReq]
    /\ envelope = [p \in Callers |-> NoEnvelope]
    /\ existing = [p \in Callers |-> "unset"]
    /\ submitPath = [p \in Callers |-> None]
    /\ opResult = [p \in Callers |-> None]
    /\ exc = [p \in Callers |-> None]
    /\ ret = [p \in Callers |-> NoRet]
    /\ LifeIdle

FleetCall == \E p \in Callers, r \in FleetRequests : Call(p, r) /\ UNCHANGED <<pollVars, lifeVars>>

FleetSubmit == \E p \in Callers : Submit(p) /\ UNCHANGED <<pollVars, lifeVars>>

FleetWaitResult == \E p \in Callers : WaitResult(p) /\ UNCHANGED <<pollVars, lifeVars>>

FleetFetchEndpoint == \E p \in Callers : FetchEndpoint(p) /\ UNCHANGED <<pollVars, lifeVars>>

\* _remove_server_handle of the handle that a spinup returned.
FleetRemoveBegin ==
    /\ \E p \in Callers :
         /\ pc[p] = "returned"
         /\ RemoveBegin(ret[p].server_handle.app_name)
    /\ UNCHANGED <<pollVars, config, callVars, runVars, disc, naming, upkeepVars>>

FleetRemoveWait ==
    RemoveWait /\ UNCHANGED <<pollVars, config, callVars, runVars, disc, naming, upkeepVars>>

\* Something other than this agent changes the resource group: an owned
\* resource with a timestamp tag that is not a number appears, or a
\* resource is deleted.
ExternalChange ==
    /\ \/ remoteApps' = remoteApps \cup {MalformedServer}
       \/ \E a \in remoteApps : remoteApps' = remoteApps \ {a}
    /\ UNCHANGED <<pollVars, config, pc, req, envelope, existing, submitPath, opResult,
                   exc, ret, lifeVars>>

FleetDiscover ==
    /\ \/ \E r \in FleetRequests : Discover("for_location", r.deployment_name, r.location_name)
       \/ Discover("all_handles", <<>>, <<>>)
    /\ UNCHANGED DiscoveryOthers

FleetNext ==
    \/ FleetCall
    \/ FleetSubmit
    \/ FleetWaitResult
    \/ FleetFetchEndpoint
    \/ FleetRemoveBegin
    \/ FleetRemoveWait
    \/ ExternalChange
    \/ FleetDiscover

SpecFleet == FleetInit /\ [][FleetNext]_vars

\* A successful discovery call has just returned.
Discovered == disc' # disc /\ ~disc'.listing_failed

\* Caller p's spinup returned a handle and the resource it wrote is in the
\* resource group as written.
SpunUpPresent(p) ==
    /\ pc[p] = "returned"
    /\ envelope[p].app_name \in RemoteNames(remoteApps)
    /\ RemoteApp(remoteApps, envelope[p].app_name).container_app = envelope[p].container_app

\* C32: a discovery call reflects the resource group as it is: the listing
\* of all servers has exactly one handle per owned resource present, and a
\* discovery for a location has the handle of a server that a spinup for
\* that location made and that is still there, and has none for a name
\* that is no longer there.
C32_DiscoveryFresh ==
    [][Discovered =>
         /\ disc'.kind = "all_handles" =>
              /\ {h.app_name : h \in disc'.result} = {a.name : a \in Owned}
              /\ Cardinality(disc'.result) = Cardinality(Owned)
         /\ disc'.kind = "for_location" =>
              \A p \in Callers :
                  ( /\ pc[p] = "returned"
                    /\ req[p].deployment_name = disc'.deployment_name
                    /\ req[p].location_name = disc'.location_name ) =>
                      /\ SpunUpPresent(p) =>
                           \E h \in disc'.result : h.app_name = envelope[p].app_name
                      /\ envelope[p].app_name \notin RemoteNames(remoteApps) =>
                           ~ \E h \in disc'.result : h.app_name = envelope[p].app_name
    ]_vars

\* C33: the handle that a discovery for the location rebuilds from the
\* tags of the resource a spinup wrote equals the handle the spinup
\* returned, for an agent with and without an instance uuid.
C33_HandleRoundTrip ==
    \A p \in Callers, now \in Clock :
        SpunUpPresent(p) =>
            HandlesForLocation({RemoteApp(remoteApps, envelope[p].app_name)},
                               req[p].deployment_name, req[p].location_name, now)
              = {ret[p].server_handle}

\* C37: spinups for two distinct (deployment, location) pairs never build
\* their ContainerApps for the same resource name.
C37_DistinctPairsDistinctNames ==
    \A p, q \in Callers :
        ( /\ envelope[p] # NoEnvelope
          /\ envelope[q] # NoEnvelope
          /\ <<req[p].deployment_name, req[p].location_name>>
               # <<req[q].deployment_name, req[q].location_name>> ) =>
            envelope[p].app_name # envelope[q].app_name

-----------------------------------------------------------------------------
(* The runs specification: runs of one location are launched and            *)
(* terminated while an operator changes the image of their code server      *)

\* update_code_server calls that move the server to other images.
RunsCalls ==
    [ op : {"update"},
      app_name : {SpunUpServer.name},
      image : {ImageNext, ImageEcr},
      environment_variables : {<<>>},
      min_replicas : {1},
      max_replicas : {1} ]

\* Two runs whose ids start with the same eight characters.
RunsLaunched == {RunA, RunC}

RunsInit ==
    /\ attempt = 0
    /\ pollPc = "top"
    /\ fetchResult = "none"
    /\ app = NoApp
    /\ probeResult = "none"
    /\ getCalls = 0
    /\ notResponding = FALSE
    /\ config = DefaultConfig
    /\ remoteApps \in {{}, {SpunUpServer}}
    /\ pc = [p \in Callers |-> "idle"]
    /\ req = [p \in Callers |-> NoReq]
    /\ envelope = [p \in Callers |-> NoEnvelope]
    /\ existing = [p \in Callers |-> "unset"]
    /\ submitPath = [p \in Callers |-> None]
    /\ opResult = [p \in Callers |-> None]
    /\ exc = [p \in Callers |-> None]
    /\ ret = [p \in Callers |-> NoRet]
    /\ LifeIdle

RunsOthers == <<pollVars, config, callVars, rm, disc, naming, upkeepVars>>

RunsLaunchRunFetch == \E r \in RunsLaunched : LaunchRunFetch(r) /\ UNCHANGED RunsOthers

RunsLaunchRunSubmit == \E r \in RunsLaunched : LaunchRunSubmit(r) /\ UNCHANGED RunsOthers

RunsOperationEnds == \E r \in RunsLaunched : RunOperationEnds(r) /\ UNCHANGED RunsOthers

RunsTerminate == \E r \in RunsLaunched : Terminate(r) /\ UNCHANGED RunsOthers

RunsUpdateFetch ==
    \E call \in RunsCalls : MaintFetch("op1", call) /\ UNCHANGED UpkeepOthers

RunsUpdateSubmit == MaintSubmit("op1") /\ UNCHANGED UpkeepOthers

RunsUpdateWait == MaintWait("op1") /\ UNCHANGED UpkeepOthers

RunsNext ==
    \/ RunsLaunchRunFetch
    \/ RunsLaunchRunSubmit
    \/ RunsOperationEnds
    \/ RunsTerminate
    \/ RunsUpdateFetch
    \/ RunsUpdateSubmit
    \/ RunsUpdateWait

SpecRuns == RunsInit /\ [][RunsNext]_vars

\* C34: launch_run builds a ContainerApp only for an image for which
\* _get_registry_credentials returns, and then with the registry
\* credentials that it returns.
C34_RunRegistryAsResolver ==
    \A r \in Runs :
        runEnvelope[r] # NoEnvelope =>
            LET creds == RegistryCredentialsFor(runEnvelope[r].container_app.image,
                                                config.code_server_identity_id)
            IN  /\ creds.raises = None
                /\ runEnvelope[r].container_app.registries = creds.registries

\* The name of the code server whose image launch_run takes.
Sibling(r) == DeriveServerName(r.deployment_name, r.location_name)

\* C35: when launch_run leaves its entry, either the code server of the
\* run's location was fetched and the ContainerApp built has the image
\* that the server has at that moment, or launch_run raised, built no
\* ContainerApp and changed no resource; with no such server only the
\* second happens.
C35_RunDependsOnSibling ==
    [][\A r \in Runs :
          (runPc[r] = "idle" /\ runPc'[r] # "idle") =>
              IF runPc'[r] = "submit"
                THEN /\ Sibling(r) \in RemoteNames(remoteApps)
                     /\ runEnvelope'[r].container_app.image
                          = RemoteApp(remoteApps, Sibling(r)).container_app.image
                ELSE /\ runPc'[r] = "raised"
                     /\ runExc'[r] # None
                     /\ runEnvelope'[r] = NoEnvelope
                     /\ remoteApps' = remoteApps
    ]_vars

\* One run was launched with the image that an update gave the server
\* after its creation, and the launch of another failed at the fetch.
C35_Witness ==
    \E r1, r2 \in Runs :
        /\ runPc[r1] = "returned"
        /\ runEnvelope[r1].container_app.image = ImageNext
        /\ runPc[r2] = "raised"
        /\ runExc[r2] = "ValueError: Could not find code server"
        /\ runEnvelope[r2] = NoEnvelope

\* The run worker that launch_run made for r is in the resource group.
WorkerOf(r, apps) ==
    \E a \in apps :
        /\ a.name = DeriveRunName(r.run_id)
        /\ "dagster-run-id" \in DOMAIN TagsOf(a)
        /\ TagsOf(a)["dagster-run-id"] = r.run_id

\* C36: the run worker of a run leaves the resource group, or is replaced,
\* only by a terminate of that run.
C36_RunsIsolated ==
    [][\A r \in Runs :
          (WorkerOf(r, remoteApps) /\ ~WorkerOf(r, remoteApps')) =>
              (termResult' # termResult /\ termResult'.run = r)
    ]_vars

-----------------------------------------------------------------------------
(* The entrypoint specification: one start of the container                 *)

\* "a,b:B,c"
RawThree == <<"a", ",", "b", ":", "B", ",", "c">>

\* "a, ,b : B"
RawSpaced == <<"a", ",", " ", ",", "b", " ", ":", " ", "B">>

\* "x${a}${B:d}"
YamlSecrets == <<"x", "$", "{", "a", "}", "$", "{", "B", ":", "d", "}">>

\* "${q: e }$}{"
YamlDefault == <<"$", "{", "q", ":", " ", "e", " ", "}", "$", "}", "{">>

\* What the container is started with: KEY_VAULT_URI, KEY_VAULT_SECRET_NAMES,
\* the rest of the environment and /app/dagster.yaml.
BootInputs ==
    { [NotBooted EXCEPT !.pc = "main", !.vault_uri = u, !.secret_names_raw = raw,
                        !.environ = env, !.original = yaml, !.yaml = yaml] :
      u \in {None, "https://v.vault.azure.net/"},
      raw \in {<<>>, RawThree, RawSpaced},
      env \in {<<>>, [k \in {<<"B">>} |-> <<"o">>]},
      yaml \in {YamlSecrets, YamlDefault} }

BootInit ==
    /\ attempt = 0
    /\ pollPc = "top"
    /\ fetchResult = "none"
    /\ app = NoApp
    /\ probeResult = "none"
    /\ getCalls = 0
    /\ notResponding = FALSE
    /\ config = DefaultConfig
    /\ remoteApps = {}
    /\ pc = [p \in Callers |-> "idle"]
    /\ req = [p \in Callers |-> NoReq]
    /\ envelope = [p \in Callers |-> NoEnvelope]
    /\ existing = [p \in Callers |-> "unset"]
    /\ submitPath = [p \in Callers |-> None]
    /\ opResult = [p \in Callers |-> None]
    /\ exc = [p \in Callers |-> None]
    /\ ret = [p \in Callers |-> NoRet]
    /\ runPc = [r \in Runs |-> "idle"]
    /\ runEnvelope = [r \in Runs |-> NoEnvelope]
    /\ runExc = [r \in Runs |-> None]
    /\ runOp = [r \in Runs |-> None]
    /\ termResult = NoTermResult
    /\ rm = NoRemoval
    /\ disc = NoDisc
    /\ naming = NoNaming
    /\ maint = [m \in Operators |-> NoMaint]
    /\ pollers = [n \in PolledNames |-> NotPolling]
    /\ boot \in BootInputs

BootOthers == <<pollVars, applyVars, runVars, rm, disc, naming, maint, pollers>>

EntryMain == BootMain /\ UNCHANGED BootOthers

EntryOpenVault == BootOpenVault /\ UNCHANGED BootOthers

EntryFetchSecret == BootFetchSecret /\ UNCHANGED BootOthers

EntryExpand == BootExpand /\ UNCHANGED BootOthers

EntryStartAgent == BootStartAgent /\ UNCHANGED BootOthers

BootNext ==
    \/ EntryMain
    \/ EntryOpenVault
    \/ EntryFetchSecret
    \/ EntryExpand
    \/ EntryStartAgent

SpecBoot == BootInit /\ [][BootNext]_vars

\* The entries of KEY_VAULT_SECRET_NAMES that name a secret, parsed.
Configured ==
    LET Named(s) == Strip(s) # <<>>
        named == SelectSeq(boot.secret_names, Named)
    IN  [k \in 1..Len(named) |-> ParseEntry(Strip(named[k]))]

\* The loop over the entries has been left.
LoopLeft == boot.attempts # <<>> /\ boot.pc \in {"expand", "agent", "running"}

\* C38: a secret that cannot be fetched stops nothing: once the loop is
\* left every configured entry has been tried, in order, under its own
\* secret name; every secret that was fetched is in the environment under
\* its entry's variable name until the expansion has read it; and the
\* entrypoint never ends with the error of a secret.
C38_SecretFailureIsolated ==
    /\ LoopLeft =>
          /\ Len(boot.attempts) = Len(Configured)
          /\ \A k \in 1..Len(Configured) :
                /\ boot.attempts[k].secret_name = Configured[k].secret_name
                /\ boot.attempts[k].env_name = Configured[k].env_name
    /\ (LoopLeft /\ boot.pc \in {"expand", "agent"}) =>
          \A k \in 1..Len(boot.attempts) :
              boot.attempts[k].ok =>
                  /\ boot.attempts[k].env_name \in DOMAIN boot.environ
                  /\ boot.environ[boot.attempts[k].env_name]
                       = SecretValue(boot.attempts[k].secret_name)
    /\ boot.pc = "failed" => boot.exc \in {"ClientError", "OSError", "ImportError"}

\* The agent runs after the first secret could not be fetched and a later
\* one, configured as secretName:ENV_VAR_NAME, was fetched and injected
\* under the variable's name.
C38_Witness ==
    /\ boot.pc = "running"
    /\ \E k, l \in 1..Len(boot.attempts) :
          /\ k < l
          /\ ~boot.attempts[k].ok
          /\ boot.attempts[l].ok
          /\ boot.attempts[l].secret_name = <<"b">>
          /\ boot.attempts[l].env_name = <<"B">>
          /\ boot.environ[<<"B">>] = <<"#", "b">>
          /\ <<"b">> \notin DOMAIN boot.environ

\* C39: every fetch of a secret comes before the expansion; the agent is
\* started only after an expansion that succeeded, and the file it reads
\* is the original with the placeholders replaced from the environment
\* that holds the fetched secrets; after an expansion that failed the
\* entrypoint has ended with that error and no agent was started.
C39_StartupOrdered ==
    LET t == boot.trace IN
    /\ \A i, j \in 1..Len(t) :
          (t[i] = "fetch" /\ t[j] \in {"expanded", "expand-failed", "agent"}) => i < j
    /\ \A j \in 1..Len(t) :
          t[j] = "agent" => \E i \in 1..(j - 1) : t[i] = "expanded"
    /\ boot.pc = "agent" => boot.yaml = ExpandEnvVars(boot.original, boot.environ)
    /\ (\E i \in 1..Len(t) : t[i] = "expand-failed") =>
          /\ boot.pc = "failed"
          /\ boot.exc = "OSError"
          /\ ~ \E i \in 1..Len(t) : t[i] = "agent"

\* The agent runs on a file in which ${a} became the fetched secret and
\* ${B:d} the secret injected as B, not the default.
C39_Witness ==
    /\ boot.pc = "running"
    /\ boot.original = YamlSecrets
    /\ boot.yaml = <<"x", "#", "a", "#", "b">>
    /\ boot.trace = <<"fetch", "fetch", "fetch", "expanded", "agent">>

=============================================================================
